---- MODULE Spec2Model ----
(***************************************************************************)
(* Star tracking and aperture photometry session of photometry.py          *)
(* (class AperturePhotometryGUI).                                          *)
(*                                                                         *)
(* Numbers.  Coordinates, velocities, thresholds and confidences are       *)
(* floats in the source; here they are fixed-point integers counted in     *)
(* 1/Scale units (Scale = 100: a position <<2050, 1900>> is the pixel      *)
(* coordinate (20.50, 19.00), the confidence 80 is 0.8).  Radii and pixel  *)
(* indices are whole pixels, as in the source (int(...), IntVar).          *)
(*                                                                         *)
(* Pixel planes.  A plane is a w x h array holding the value bg everywhere *)
(* except at the pixels listed in stars (<<x, y, value>>); every sum over  *)
(* a cutout is the sum over its pixels, computed from that description.    *)
(***************************************************************************)
EXTENDS Integers, Sequences, FiniteSets, TLC

\* fixed-point resolution: 1/Scale pixel (or ADU)
Scale == 10 * 10
\* Python None in a list of positions
None == <<>>
\* paused_tracking_mode is None
NoMode == "None"

\* ------------------------------------------------------------------------
\* arithmetic helpers
\* ------------------------------------------------------------------------
Abs(a) == IF a < 0 THEN -a ELSE a
Max(a, b) == IF a >= b THEN a ELSE b
Min(a, b) == IF a <= b THEN a ELSE b

\* Python int(): truncation toward zero of the fixed-point value a / Scale.
PyInt(a) == IF a >= 0 THEN a \div Scale ELSE -((-a) \div Scale)

\* float division a / b (b > 0), rounded to the nearest fixed-point value.
FDiv(a, b) == IF a >= 0 THEN (2 * a + b) \div (2 * b) ELSE -((2 * (-a) + b) \div (2 * b))

RECURSIVE ISqrtSearch(_, _, _)
ISqrtSearch(n, lo, hi) ==
    IF lo >= hi THEN lo
    ELSE LET mid == (lo + hi + 1) \div 2
         IN  IF mid * mid <= n THEN ISqrtSearch(n, mid, hi) ELSE ISqrtSearch(n, lo, mid - 1)

\* floor(sqrt(n)) for 0 <= n < 2^31
ISqrt(n) == ISqrtSearch(n, 0, Min(n, 46340))

RECURSIVE SumFn(_, _)
SumFn(f, S) ==
    IF S = {} THEN 0
    ELSE LET s == CHOOSE t \in S : TRUE IN f[s] + SumFn(f, S \ {s})

RECURSIVE SumSeq(_)
SumSeq(s) == IF s = <<>> THEN 0 ELSE Head(s) + SumSeq(Tail(s))

\* squared Euclidean distance of two positions, in (1/Scale)^2 units
Dist2(p, q) == (p[1] - q[1]) * (p[1] - q[1]) + (p[2] - q[2]) * (p[2] - q[2])

\* Python list slice s[:n] for n >= 0
Take(s, n) == SubSeq(s, 1, Min(n, Len(s)))

\* Python list slice s[-n:]
LastN(s, n) == SubSeq(s, Max(1, Len(s) - n + 1), Len(s))

\* ------------------------------------------------------------------------
\* tracking history
\* ------------------------------------------------------------------------
tracking_history_size == 5

EmptyHistory ==
    [position_history |-> <<>>, velocity_history |-> <<>>, tracking_confidence |-> <<>>]

\* a history whose pop() takes the newest entry instead of the oldest
UpdateKeepingOldest(h, position, confidence) ==
    LET ph1 == Append(h.position_history, position)
        tc1 == Append(h.tracking_confidence, confidence)
        vh1 == IF Len(ph1) >= 2
               THEN Append(h.velocity_history,
                           <<position[1] - ph1[Len(ph1) - 1][1],
                             position[2] - ph1[Len(ph1) - 1][2]>>)
               ELSE h.velocity_history
    IN  [position_history    |-> Take(ph1, tracking_history_size),
         tracking_confidence |-> Take(tc1, tracking_history_size),
         velocity_history    |-> Take(vh1, tracking_history_size)]

\* an update that records a zero velocity with the first position
UpdateWithFirstVelocity(h, position, confidence) ==
    LET ph1 == Append(h.position_history, position)
        tc1 == Append(h.tracking_confidence, confidence)
        vh1 == Append(h.velocity_history,
                      IF Len(ph1) >= 2
                      THEN <<position[1] - ph1[Len(ph1) - 1][1],
                             position[2] - ph1[Len(ph1) - 1][2]>>
                      ELSE <<0, 0>>)
        over == Len(ph1) > tracking_history_size
    IN  [position_history    |-> IF over THEN Tail(ph1) ELSE ph1,
         tracking_confidence |-> IF over THEN Tail(tc1) ELSE tc1,
         velocity_history    |-> IF Len(vh1) > tracking_history_size THEN Tail(vh1) ELSE vh1]

\* _update_tracking_history(position, confidence)
UpdateTrackingHistory(h, position, confidence) ==
    LET ph1 == Append(h.position_history, position)
        tc1 == Append(h.tracking_confidence, confidence)
        vh1 == IF Len(ph1) >= 2
               THEN Append(h.velocity_history,
                           <<position[1] - ph1[Len(ph1) - 1][1],
                             position[2] - ph1[Len(ph1) - 1][2]>>)
               ELSE h.velocity_history
        over == Len(ph1) > tracking_history_size
    IN  [position_history    |-> IF over THEN Tail(ph1) ELSE ph1,
         tracking_confidence |-> IF over THEN Tail(tc1) ELSE tc1,
         velocity_history    |-> IF Len(vh1) > tracking_history_size THEN Tail(vh1) ELSE vh1]

\* a prediction from the plain mean of the velocities
PredictUnweighted(h, expected_pos) ==
    IF Len(h.position_history) < 2 \/ h.velocity_history = <<>> THEN expected_pos
    ELSE LET vh == h.velocity_history
             n  == Len(vh)
         IN  <<expected_pos[1] + FDiv(SumSeq([i \in 1..n |-> vh[i][1]]), n),
               expected_pos[2] + FDiv(SumSeq([i \in 1..n |-> vh[i][2]]), n)>>

\* _predict_position_with_momentum(expected_pos)
PredictPositionWithMomentum(h, expected_pos) ==
    IF Len(h.position_history) < 2 THEN expected_pos
    ELSE LET vh == h.velocity_history
             n  == Len(vh)
             \* weight (i+1)/n for the i-th velocity; the common factor 1/n
             \* cancels in sum(v*w)/sum(w)
             wsum == SumSeq([i \in 1..n |-> i])
             sx == SumSeq([i \in 1..n |-> vh[i][1] * i])
             sy == SumSeq([i \in 1..n |-> vh[i][2] * i])
         IN  IF n > 0
             THEN <<expected_pos[1] + FDiv(sx, wsum), expected_pos[2] + FDiv(sy, wsum)>>
             ELSE expected_pos

\* a radius without the upper limit 2 * base_radius
RadiusWithoutUpperClamp(h, base_radius) ==
    IF Len(h.position_history) < 3 THEN base_radius
    ELSE LET recent == LastN(h.position_history, 5)
             n  == Len(recent)
             sx  == SumSeq([i \in 1..n |-> recent[i][1]])
             sy  == SumSeq([i \in 1..n |-> recent[i][2]])
             sxx == SumSeq([i \in 1..n |-> recent[i][1] * recent[i][1]])
             syy == SumSeq([i \in 1..n |-> recent[i][2] * recent[i][2]])
             m   == (n * sxx - sx * sx) + (n * syy - sy * sy)
         IN  Max(base_radius,
                 base_radius + ISqrt((4 * m) \div (n * n * Scale * Scale)))

\* _calculate_adaptive_search_radius(base_radius): whole pixels
CalculateAdaptiveSearchRadius(h, base_radius) ==
    IF Len(h.position_history) < 3 THEN base_radius
    ELSE LET recent == LastN(h.position_history, 5)
             n  == Len(recent)
             x0 == recent[1][1]
             y0 == recent[1][2]
             sx  == SumSeq([i \in 1..n |-> recent[i][1] - x0])
             sy  == SumSeq([i \in 1..n |-> recent[i][2] - y0])
             sxx == SumSeq([i \in 1..n |-> (recent[i][1] - x0) * (recent[i][1] - x0)])
             syy == SumSeq([i \in 1..n |-> (recent[i][2] - y0) * (recent[i][2] - y0)])
             \* n^2 * (x_std^2 + y_std^2), in (1/Scale)^2 units
             m   == (n * sxx - sx * sx) + (n * syy - sy * sy)
             \* int(base + 2 * sqrt(x_std^2 + y_std^2))
             adaptive == base_radius + ISqrt((4 * m) \div (n * n * Scale * Scale))
         IN  Max(base_radius, Min(adaptive, base_radius * 2))

\* ------------------------------------------------------------------------
\* pixel planes and cutouts
\* ------------------------------------------------------------------------
\* image_data[y, x]
PixelAt(plane, x, y) ==
    IF \E s \in plane.stars : s[1] = x /\ s[2] = y
    THEN (CHOOSE s \in plane.stars : s[1] = x /\ s[2] = y)[3]
    ELSE plane.bg

\* Python slice a[lo:hi] of an axis of length n, for lo >= 0: the index range
\* [from, to) it selects (a negative hi counts from the end).
SliceRange(lo, hi, n) ==
    LET h1 == IF hi < 0 THEN Max(0, hi + n) ELSE Min(hi, n)
        l1 == Min(lo, n)
    IN  [from |-> l1, to |-> Max(l1, h1)]

\* The rectangle image_data[y_min:y_max, x_min:x_max] as index ranges.
Cutout(plane, x_min, x_max, y_min, y_max) ==
    LET xs == SliceRange(x_min, x_max, plane.w)
        ys == SliceRange(y_min, y_max, plane.h)
    IN  [x0 |-> xs.from, x1 |-> xs.to, y0 |-> ys.from, y1 |-> ys.to]

CutoutSize(c) == (c.x1 - c.x0) * (c.y1 - c.y0)

StarsIn(plane, c) ==
    {s \in plane.stars : c.x0 <= s[1] /\ s[1] < c.x1 /\ c.y0 <= s[2] /\ s[2] < c.y1}

\* The pixel values of a cutout as a bag: value -> number of pixels.
CutoutBag(plane, c) ==
    LET st  == StarsIn(plane, c)
        nbg == CutoutSize(c) - Cardinality(st)
        vals == {s[3] : s \in st} \cup (IF nbg > 0 THEN {plane.bg} ELSE {})
    IN  [v \in vals |->
            Cardinality({s \in st : s[3] = v}) + (IF v = plane.bg THEN nbg ELSE 0)]

BagCount(b) == SumFn(b, DOMAIN b)
BagMax(b) == CHOOSE v \in DOMAIN b : \A u \in DOMAIN b : u <= v
BagMin(b) == CHOOSE v \in DOMAIN b : \A u \in DOMAIN b : v <= u

\* the k-th smallest element (k = 1 .. BagCount)
BagRank(b, k) ==
    CHOOSE v \in DOMAIN b :
        /\ SumFn(b, {u \in DOMAIN b : u <= v}) >= k
        /\ SumFn(b, {u \in DOMAIN b : u < v}) < k

\* np.median, fixed-point
BagMedian(b) ==
    LET n == BagCount(b)
    IN  IF n % 2 = 1 THEN BagRank(b, (n + 1) \div 2) * Scale
        ELSE ((BagRank(b, n \div 2) + BagRank(b, n \div 2 + 1)) * Scale) \div 2

\* np.std (population standard deviation), fixed-point
BagStd(b) ==
    LET n   == BagCount(b)
        lo  == BagMin(b)
        s1  == SumFn([v \in DOMAIN b |-> b[v] * (v - lo)], DOMAIN b)
        s2  == SumFn([v \in DOMAIN b |-> b[v] * (v - lo) * (v - lo)], DOMAIN b)
        num == n * s2 - s1 * s1
    IN  IF num < 100000
        THEN ISqrt((num * Scale * Scale) \div (n * n))
        ELSE ISqrt(((num \div n) * Scale * Scale) \div n)

\* astropy.stats.sigma_clipped_stats(cutout, sigma=3.0): values farther than
\* 3 std from the median are discarded, at most 5 rounds (astropy's default
\* maxiters), stopping when a round discards nothing.
RECURSIVE SigmaClip(_, _)
RECURSIVE ClipRound(_, _, _, _)
ClipRound(b, iters, med, std) ==
    LET keep == {v \in DOMAIN b : /\ v * Scale >= med - 3 * std
                                  /\ v * Scale <= med + 3 * std}
    IN  IF keep = DOMAIN b THEN b
        ELSE SigmaClip([v \in keep |-> b[v]], iters - 1)

SigmaClip(b, iters) ==
    IF iters = 0 THEN b ELSE ClipRound(b, iters, BagMedian(b), BagStd(b))

sigma_clip_maxiters == 5

\* threshold = median + multiplier * std, the multiplier 2.0, 2.5 or 3.0 by
\* the signal-to-noise (peak - median) / (std + 1e-6) being > 10, > 5 or less
ThresholdOfStats(median, std, peak) ==
    LET mult2 == IF peak * Scale - median > 10 * std THEN 4
                 ELSE IF peak * Scale - median > 5 * std THEN 5
                 ELSE 6
    IN  [threshold |-> median + (mult2 * std) \div 2, peak_brightness |-> peak]

\* the median and std of the sigma-clipped cutout, with the cutout's peak
ThresholdOfClipped(cl, peak) == ThresholdOfStats(BagMedian(cl), BagStd(cl), peak)

ThresholdOfBag(b) == ThresholdOfClipped(SigmaClip(b, sigma_clip_maxiters), BagMax(b))

\* _calculate_adaptive_threshold(cutout): the threshold (fixed-point) and
\* the peak brightness (a pixel value)
CalculateAdaptiveThreshold(plane, c) == ThresholdOfBag(CutoutBag(plane, c))

\* Sums of the weights np.maximum(region - threshold, 0) over a rectangle r of
\* the plane and of the weights times the coordinates counted from the
\* rectangle's corner (what centroid_com and the np.mgrid centroid add up).
WeightSums(plane, r, threshold) ==
    LET st   == StarsIn(plane, r)
        wd   == r.x1 - r.x0
        ht   == r.y1 - r.y0
        nbg  == wd * ht - Cardinality(st)
        wbg  == Max(plane.bg * Scale - threshold, 0)
        w    == [s \in st |-> Max(s[3] * Scale - threshold, 0)]
        allx == ht * ((wd * (wd - 1)) \div 2)
        ally == wd * ((ht * (ht - 1)) \div 2)
    IN  [total |-> wbg * nbg + SumFn(w, st),
         sumx  |-> wbg * (allx - SumFn([s \in st |-> s[1] - r.x0], st))
                   + SumFn([s \in st |-> w[s] * (s[1] - r.x0)], st),
         sumy  |-> wbg * (ally - SumFn([s \in st |-> s[2] - r.y0], st))
                   + SumFn([s \in st |-> w[s] * (s[2] - r.y0)], st)]

\* np.unravel_index(np.argmax(cutout), cutout.shape): the first pixel, in row
\* order, holding the largest value; <<peak_x, peak_y>> in cutout coordinates.
RECURSIVE FirstRowWith(_, _, _, _)
FirstRowWith(plane, c, peak, y) ==
    IF \E x \in c.x0 .. (c.x1 - 1) : PixelAt(plane, x, y) = peak THEN y
    ELSE FirstRowWith(plane, c, peak, y + 1)

ArgMax(plane, c) ==
    LET peak == BagMax(CutoutBag(plane, c))
        y    == FirstRowWith(plane, c, peak, c.y0)
        xs   == {x \in c.x0 .. (c.x1 - 1) : PixelAt(plane, x, y) = peak}
        x    == CHOOSE a \in xs : \A b \in xs : a <= b
    IN  <<x - c.x0, y - c.y0>>

\* the acceptance test with the edges themselves allowed
AcceptedAtEdge(plane, tracked, expected_pos, adaptive_radius) ==
    /\ 4 * Dist2(tracked, expected_pos) <= 9 * adaptive_radius * adaptive_radius * Scale * Scale
    /\ 5 * Scale <= tracked[1] /\ tracked[1] <= (plane.w - 5) * Scale
    /\ 5 * Scale <= tracked[2] /\ tracked[2] <= (plane.h - 5) * Scale

\* the acceptance test shared by the center-of-mass and the peak method
Accepted(plane, tracked, expected_pos, adaptive_radius) ==
    /\ 4 * Dist2(tracked, expected_pos) <= 9 * adaptive_radius * adaptive_radius * Scale * Scale
    /\ 5 * Scale < tracked[1] /\ tracked[1] < (plane.w - 5) * Scale
    /\ 5 * Scale < tracked[2] /\ tracked[2] < (plane.h - 5) * Scale

Conf08 == 80
Conf06 == 60
Conf03 == 30
Conf01 == 10
window_size == 5

\* the weighted centroid from its sums, moved by the corner of the region;
\* ok tells whether the total weight is positive
CentroidOf(ws, x_off, y_off, expected_pos) ==
    [ok  |-> ws.total > 0,
     pos |-> IF ws.total > 0
             THEN <<FDiv(ws.sumx * Scale, ws.total) + x_off * Scale,
                    FDiv(ws.sumy * Scale, ws.total) + y_off * Scale>>
             ELSE expected_pos]

\* STEP 5: center of mass of the cutout above the threshold
CenterOfMass(plane, c, threshold, expected_pos) ==
    CentroidOf(WeightSums(plane, c, threshold), c.x0, c.y0, expected_pos)

\* STEP 6: centroid of the window of window_size pixels around the peak pk
PeakWindowCentroid(plane, c, threshold, expected_pos, pk) ==
    LET x_start == Max(0, pk[1] - window_size)
        x_end   == Min(c.x1 - c.x0, pk[1] + window_size + 1)
        y_start == Max(0, pk[2] - window_size)
        y_end   == Min(c.y1 - c.y0, pk[2] + window_size + 1)
        win     == [x0 |-> c.x0 + x_start, x1 |-> c.x0 + x_end,
                    y0 |-> c.y0 + y_start, y1 |-> c.y0 + y_end]
    IN  CentroidOf(WeightSums(plane, win, threshold),
                   c.x0 + x_start, c.y0 + y_start, expected_pos)

PeakCentroid(plane, c, threshold, expected_pos) ==
    PeakWindowCentroid(plane, c, threshold, expected_pos, ArgMax(plane, c))

\* a tracker without the momentum step
MomentumNeverAccepted(predicted_pos, expected_pos, adaptive_radius) == FALSE

\* STEP 7: the momentum prediction is taken when it differs from the expected
\* position and lies within the adaptive radius of it
MomentumAccepted(predicted_pos, expected_pos, adaptive_radius) ==
    /\ predicted_pos # expected_pos
    /\ Dist2(predicted_pos, expected_pos)
         <= adaptive_radius * adaptive_radius * Scale * Scale

\* what a return statement of track_star_position leaves: the position
\* returned, the history after its _update_tracking_history call, the return
\* statement taken (path), the number of history updates and whether the
\* cutout held a pixel above the threshold (signal)
Tracked(h, pos, confidence, path, signal) ==
    [pos |-> pos, history |-> UpdateTrackingHistory(h, pos, confidence),
     path |-> path, pushes |-> 1, signal |-> signal]

\* STEPS 5 to 8 in order, given the two centroid candidates
SelectCandidate(h, plane, expected_pos, predicted_pos, adaptive_radius, com, peak) ==
    IF com.ok /\ Accepted(plane, com.pos, expected_pos, adaptive_radius)
    THEN Tracked(h, com.pos, Conf08, "com", com.ok)
    ELSE IF peak.ok /\ Accepted(plane, peak.pos, expected_pos, adaptive_radius)
    THEN Tracked(h, peak.pos, Conf06, "peak", com.ok)
    ELSE IF MomentumAccepted(predicted_pos, expected_pos, adaptive_radius)
    THEN Tracked(h, predicted_pos, Conf03, "momentum", com.ok)
    ELSE Tracked(h, expected_pos, Conf01, "fallback", com.ok)

TrackWithThreshold(h, plane, expected_pos, predicted_pos, adaptive_radius, c, threshold) ==
    SelectCandidate(h, plane, expected_pos, predicted_pos, adaptive_radius,
                    CenterOfMass(plane, c, threshold, expected_pos),
                    PeakCentroid(plane, c, threshold, expected_pos))

\* the empty cutout returns expected_pos at once, the history untouched
TrackInCutout(h, plane, expected_pos, predicted_pos, adaptive_radius, c) ==
    IF CutoutSize(c) = 0
    THEN [pos |-> expected_pos, history |-> h, path |-> "empty", pushes |-> 0,
          signal |-> FALSE]
    ELSE TrackWithThreshold(h, plane, expected_pos, predicted_pos, adaptive_radius,
                            c, CalculateAdaptiveThreshold(plane, c).threshold)

\* STEPS 1 to 3: the search region around the predicted position
TrackAround(h, plane, expected_pos, predicted_pos, adaptive_radius) ==
    LET x_int == PyInt(predicted_pos[1])
        y_int == PyInt(predicted_pos[2])
        x_min == Max(0, x_int - adaptive_radius)
        x_max == Min(plane.w, x_int + adaptive_radius)
        y_min == Max(0, y_int - adaptive_radius)
        y_max == Min(plane.h, y_int + adaptive_radius)
    IN  TrackInCutout(h, plane, expected_pos, predicted_pos, adaptive_radius,
                      Cutout(plane, x_min, x_max, y_min, y_max))

\* track_star_position(image_data, expected_pos, search_radius).
\* The outer except branch (return expected_pos, no history update) needs an
\* input the callers never pass (a non-finite coordinate, a non-integer
\* radius); the inputs here are finite positions and whole radii.
TrackStarPosition(h, plane, expected_pos, search_radius) ==
    TrackAround(h, plane, expected_pos,
                PredictPositionWithMomentum(h, expected_pos),
                CalculateAdaptiveSearchRadius(h, search_radius))

(***************************************************************************)
(* The session: AperturePhotometryGUI.  One GUI thread runs the widget and  *)
(* timer callbacks to completion one at a time; the batch worker thread    *)
(* runs process_batch_photometry beside it.                                 *)
(***************************************************************************)

\* number of FITS files in the selected folder
NumFrames == 3
\* user actions explored in one run
MaxEvents == 8
\* root.after callbacks pending at one time
MaxPending == 2

\* search_radius_var, IntVar(value=25)
search_radius == 25

\* The frames of the folder as grayscale planes.  Frame 1 is a flat plane
\* (the star is hidden); every other frame holds one bright pixel.
PlaneW == 40
PlaneH == 40
Background == 10
StarValue == 60
StarPlane(x, y) ==
    [w |-> PlaneW, h |-> PlaneH, bg |-> Background, stars |-> {<<x, y, StarValue>>}]
FlatPlane == [w |-> PlaneW, h |-> PlaneH, bg |-> Background, stars |-> {}]
FramePlane(i) ==
    IF i = 1 THEN FlatPlane ELSE StarPlane(20 + (i \div 2), 20)

\* canvas positions the user clicks
ClickPositions == {<<20 * Scale, 20 * Scale>>, <<23 * Scale, 20 * Scale>>}

ButtonNames ==
    {"preselect_button", "pause_preselect_button", "stop_preselect_button",
     "clear_position_button", "stop_button", "go_back_button",
     "skip_frame_button", "batch_process_button"}
TimerNames ==
    {"advance_to_next_frame", "advance_to_next_preselection_frame",
     "load_frame_for_preselection"}

VARIABLES
    num_files,                 \* len(self.fits_files)
    current_image,             \* index of the frame in current_image_data, or NoImage
    star_selected,             \* self.selected_star_pos is not None
    tracking_enabled,          \* tracking_enabled_var
    processing, stop_processing, paused, paused_tracking_mode, paused_frame_index,
    waiting_for_resume_click,
    sequential_mode, current_frame_index, frame_positions,
    preselection_mode, preselected_positions, preselection_paused,
    waiting_for_resume_reference, stop_preselection,
    batch_processing_mode,
    position_history, velocity_history, tracking_confidence,
    photometry_results,
    buttons,                   \* widget name -> enabled
    timers,                    \* callback name -> pending root.after calls
    worker_pc, worker_i, worker_n, worker_positions, worker_alias,
    worker_star_pos, worker_result,
    old_worker_pc,             \* an earlier worker thread that has left its loop: its place
    status_errors,             \* frames with an "Error processing" line in the status log
    unreadable,                \* frames whose file fits.open cannot read any more
    positions_csv,             \* rows of the saved star positions file, if any
    closed,                    \* the window has been destroyed
    last_track,                \* the latest track_star_position call, or NoTrack
    pause_write,               \* the write to a paused session made by the last step
    stop_snapshot,             \* the results and the worker's place when stop_processing was set
    pushed,                    \* the _update_tracking_history calls since the last reset
    last_call,                 \* the latest call of a helper method made on its own, or NoCall
    completed_run,             \* positions and results of the last batch run whose loop ended
    events                     \* user actions so far

vars ==
    <<num_files, current_image, star_selected, tracking_enabled, processing,
      stop_processing, paused, paused_tracking_mode, paused_frame_index,
      waiting_for_resume_click, sequential_mode, current_frame_index,
      frame_positions, preselection_mode, preselected_positions,
      preselection_paused, waiting_for_resume_reference, stop_preselection,
      batch_processing_mode, position_history, velocity_history,
      tracking_confidence, photometry_results, buttons, timers, worker_pc,
      worker_i, worker_n, worker_positions, worker_alias, worker_star_pos,
      worker_result, old_worker_pc, status_errors, unreadable, positions_csv, closed,
      last_track, pause_write, stop_snapshot, pushed, last_call, completed_run,
      events>>

\* no write to a paused session in the last step
NoWrite == <<>>
\* stop_processing has not been set
NoSnapshot == <<>>
\* no helper method has been called on its own
NoCall == <<>>
\* no batch run has ended its loop
NoRun == <<>>

\* the object's fields as one record; the methods below map such a record to
\* the record after the call
Self ==
    [num_files |-> num_files, current_image |-> current_image,
     star_selected |-> star_selected, tracking_enabled |-> tracking_enabled,
     processing |-> processing, stop_processing |-> stop_processing,
     paused |-> paused, paused_tracking_mode |-> paused_tracking_mode,
     paused_frame_index |-> paused_frame_index,
     waiting_for_resume_click |-> waiting_for_resume_click,
     sequential_mode |-> sequential_mode,
     current_frame_index |-> current_frame_index,
     frame_positions |-> frame_positions,
     preselection_mode |-> preselection_mode,
     preselected_positions |-> preselected_positions,
     preselection_paused |-> preselection_paused,
     waiting_for_resume_reference |-> waiting_for_resume_reference,
     stop_preselection |-> stop_preselection,
     batch_processing_mode |-> batch_processing_mode,
     position_history |-> position_history,
     velocity_history |-> velocity_history,
     tracking_confidence |-> tracking_confidence,
     photometry_results |-> photometry_results,
     buttons |-> buttons, timers |-> timers,
     worker_pc |-> worker_pc, worker_i |-> worker_i, worker_n |-> worker_n,
     worker_positions |-> worker_positions, worker_alias |-> worker_alias,
     worker_star_pos |-> worker_star_pos, worker_result |-> worker_result,
     old_worker_pc |-> old_worker_pc, status_errors |-> status_errors,
     unreadable |-> unreadable,
     positions_csv |-> positions_csv, closed |-> closed,
     last_track |-> last_track, pause_write |-> NoWrite,
     stop_snapshot |-> stop_snapshot, pushed |-> pushed,
     last_call |-> last_call, completed_run |-> completed_run,
     events |-> events]

\* the fields after a call
Becomes(s) ==
    /\ num_files' = s.num_files
    /\ current_image' = s.current_image
    /\ star_selected' = s.star_selected
    /\ tracking_enabled' = s.tracking_enabled
    /\ processing' = s.processing
    /\ stop_processing' = s.stop_processing
    /\ paused' = s.paused
    /\ paused_tracking_mode' = s.paused_tracking_mode
    /\ paused_frame_index' = s.paused_frame_index
    /\ waiting_for_resume_click' = s.waiting_for_resume_click
    /\ sequential_mode' = s.sequential_mode
    /\ current_frame_index' = s.current_frame_index
    /\ frame_positions' = s.frame_positions
    /\ preselection_mode' = s.preselection_mode
    /\ preselected_positions' = s.preselected_positions
    /\ preselection_paused' = s.preselection_paused
    /\ waiting_for_resume_reference' = s.waiting_for_resume_reference
    /\ stop_preselection' = s.stop_preselection
    /\ batch_processing_mode' = s.batch_processing_mode
    /\ position_history' = s.position_history
    /\ velocity_history' = s.velocity_history
    /\ tracking_confidence' = s.tracking_confidence
    /\ photometry_results' = s.photometry_results
    /\ buttons' = s.buttons
    /\ timers' = s.timers
    /\ worker_pc' = s.worker_pc
    /\ worker_i' = s.worker_i
    /\ worker_n' = s.worker_n
    /\ worker_positions' = s.worker_positions
    /\ worker_alias' = s.worker_alias
    /\ worker_star_pos' = s.worker_star_pos
    /\ worker_result' = s.worker_result
    /\ old_worker_pc' = s.old_worker_pc
    /\ status_errors' = s.status_errors
    /\ unreadable' = s.unreadable
    /\ positions_csv' = s.positions_csv
    /\ closed' = s.closed
    /\ last_track' = s.last_track
    /\ pause_write' = s.pause_write
    /\ stop_snapshot' = s.stop_snapshot
    /\ pushed' = s.pushed
    /\ last_call' = s.last_call
    /\ completed_run' = s.completed_run
    /\ events' = s.events


\* current_image_data is None
NoImage == 0 - 1
\* no track_star_position call yet
NoTrack == <<>>
\* process_single_image returned None
NoResult == <<>>

\* root.after(delay, callback)
After(s, name) == [s EXCEPT !.timers[name] = @ + 1]

\* widget.config(state=NORMAL / DISABLED)
Config(s, name, enabled) == [s EXCEPT !.buttons[name] = enabled]

NoneSeq(n) == [k \in 1..n |-> None]

\* while len(l) <= idx: l.append(None);  l[idx] = v
SetAt(l, idx, v) ==
    [(l \o NoneSeq(Max(0, idx + 1 - Len(l)))) EXCEPT ![idx + 1] = v]

\* preselected_positions changed in place: a worker iterating the same list
\* object sees the change
InPlace(s, l) ==
    [s EXCEPT !.preselected_positions = l,
              !.worker_positions = IF s.worker_alias THEN l ELSE @]

\* self.preselected_positions = <new list>: the worker keeps the old object
Rebind(s, l) ==
    [s EXCEPT !.preselected_positions = l, !.worker_alias = FALSE]

\* a track_star_position call on frame image_index, made by the automatic
\* tracking of a loaded frame (by = "auto") or for a click (by = "click"); the
\* position returned is last_track.pos of the result
TrackingHistory(s) ==
    [position_history |-> s.position_history,
     velocity_history |-> s.velocity_history,
     tracking_confidence |-> s.tracking_confidence]

AfterTrack(s, image_index, expected_pos, radius, by, r) ==
    [s EXCEPT !.position_history = r.history.position_history,
              !.velocity_history = r.history.velocity_history,
              !.tracking_confidence = r.history.tracking_confidence,
              !.pushed = IF r.pushes = 1
                         THEN Append(@, <<r.pos,
                                          r.history.tracking_confidence[
                                              Len(r.history.tracking_confidence)]>>)
                         ELSE @,
              !.last_track = [frame |-> image_index, expected |-> expected_pos,
                              radius |-> radius,
                              before |-> TrackingHistory(s),
                              pos |-> r.pos, path |-> r.path,
                              pushes |-> r.pushes, signal |-> r.signal,
                              by |-> by]]

Track(s, image_index, expected_pos, by) ==
    AfterTrack(s, image_index, expected_pos, search_radius, by,
               TrackStarPosition(TrackingHistory(s), FramePlane(image_index),
                                 expected_pos, search_radius))

ResetTrackingHistory(s) ==
    [s EXCEPT !.position_history = <<>>, !.velocity_history = <<>>,
              !.tracking_confidence = <<>>, !.pushed = <<>>]

\* load_first_image()
LoadFirstImage(s) ==
    IF s.num_files = 0 THEN s ELSE [s EXCEPT !.current_image = 0]

\* the .2f formatting of a coordinate in the positions file
Format2f(x) == FDiv(x * 100, Scale) * (Scale \div 100)

RECURSIVE CsvRows(_, _, _)
CsvRows(l, k, n) ==
    IF k > Len(l) THEN <<>>
    ELSE IF l[k] # None /\ k - 1 < n
         THEN <<<<Format2f(l[k][1]), Format2f(l[k][2])>>>> \o CsvRows(l, k + 1, n)
         ELSE CsvRows(l, k + 1, n)

\* auto_save_star_positions(): one row per frame with a position
AutoSaveStarPositions(s) ==
    IF s.preselected_positions = <<>> THEN s
    ELSE [s EXCEPT !.positions_csv = CsvRows(s.preselected_positions, 1, s.num_files)]

\* finish_preselection_phase()
FinishPreselectionPhase(s) ==
    LET s1 == Config(Config([s EXCEPT !.preselection_mode = FALSE],
                            "go_back_button", FALSE), "skip_frame_button", FALSE)
    IN  IF Len(s.preselected_positions) > 0
        THEN Config(Config(AutoSaveStarPositions(s1),
                 "preselect_button", TRUE), "batch_process_button", TRUE)
        ELSE LoadFirstImage(Config(s1, "preselect_button", TRUE))

\* the earliest position that is not None
EarliestPosition(l) ==
    LET K == {k \in 1..Len(l) : l[k] # None}
    IN  IF K = {} THEN None ELSE l[CHOOSE k \in K : \A j \in K : k <= j]

\* the most recent position that is not None (the reversed() scan)
LastPosition(l) ==
    LET K == {k \in 1..Len(l) : l[k] # None}
    IN  IF K = {} THEN None ELSE l[CHOOSE k \in K : \A j \in K : j <= k]

\* preselected_positions[idx] = pos, the list padded with None up to idx
StorePosition(s, idx, pos) ==
    InPlace(s, SetAt(s.preselected_positions, idx, pos))

\* the position the tracker just returned is stored for frame idx
StoreTrackedPosition(s, idx) == StorePosition(s, idx, s.last_track.pos)

\* load_frame_for_preselection(frame_index)
LoadFrameForPreselection(s, frame_index) ==
    IF frame_index >= s.num_files THEN FinishPreselectionPhase(s)
    ELSE IF frame_index < Len(s.preselected_positions)
    THEN After([s EXCEPT !.current_frame_index = frame_index + 1],
               "load_frame_for_preselection")
    ELSE IF /\ s.tracking_enabled /\ frame_index > 0
            /\ Len(s.preselected_positions) > 0
            /\ ~s.stop_preselection /\ ~s.paused
            /\ LastPosition(s.preselected_positions) # None
    THEN After([StoreTrackedPosition(
                    Track([s EXCEPT !.current_image = frame_index], frame_index,
                          LastPosition(s.preselected_positions), "auto"),
                    frame_index)
                  EXCEPT !.star_selected = TRUE],
               "advance_to_next_preselection_frame")
    ELSE [s EXCEPT !.current_image = frame_index]

\* start_preselection_mode(), past its input checks
StartPreselectionMode(s) ==
    LET s1 == ResetTrackingHistory(Rebind(
                 [s EXCEPT !.preselection_mode = TRUE, !.current_frame_index = 0,
                           !.photometry_results = <<>>,
                           !.stop_preselection = FALSE], <<>>))
        s2 == [s1 EXCEPT !.buttons =
                 [b \in ButtonNames |->
                    CASE b \in {"pause_preselect_button", "stop_preselect_button"} -> TRUE
                      [] b \in {"preselect_button", "batch_process_button",
                                "go_back_button", "skip_frame_button"} -> FALSE
                      [] OTHER -> s1.buttons[b]]]
    IN  LoadFrameForPreselection(s2, 0)

\* clear_current_frame_position()
ClearCurrentFramePosition(s) ==
    LET s1 == [s EXCEPT !.star_selected = FALSE]
    IN  IF s.current_frame_index < Len(s.preselected_positions)
        THEN InPlace(s1, [s.preselected_positions
                            EXCEPT ![s.current_frame_index + 1] = None])
        ELSE s1

\* the refinement of a clicked position by the tracker, when it applies: the
\* fields after the call and the position to use
Refined(s) == [s |-> s, pos |-> s.last_track.pos]

RefineClick(s, applies, pos) ==
    IF applies /\ s.current_image # NoImage
    THEN Refined(Track(s, s.current_image, pos, "click"))
    ELSE [s |-> s, pos |-> pos]

\* the refined position is stored for the current frame
StoreRefined(r) == StorePosition(r.s, r.s.current_frame_index, r.pos)

\* the record of a write to a paused session
Written(r, via, frame, before, list) ==
    [r EXCEPT !.pause_write = [via |-> via, frame |-> frame, before |-> before,
                               position |-> list[frame + 1]]]

WrittenInPause(r, frame, before) ==
    Written(r, "preselection_pause", frame, before, r.preselected_positions)

\* update_preselection_position_during_pause(x, y, event)
UpdatePreselectionPositionDuringPause(s, pos, button) ==
    IF button = 3 THEN ClearCurrentFramePosition(s)
    ELSE [WrittenInPause(StoreRefined(RefineClick(s, s.tracking_enabled, pos)),
                         s.current_frame_index, s.preselected_positions)
            EXCEPT !.star_selected = TRUE]

\* set_resume_reference_point(x, y)
SetResumeReferencePoint(s, pos) ==
    After([StoreRefined(RefineClick(
               [s EXCEPT !.waiting_for_resume_reference = FALSE], TRUE, pos))
             EXCEPT !.star_selected = TRUE],
          "advance_to_next_preselection_frame")

\* on_preselection_click(event)
OnPreselectionClick(s, pos, button) ==
    IF s.preselection_paused THEN UpdatePreselectionPositionDuringPause(s, pos, button)
    ELSE IF s.waiting_for_resume_reference THEN SetResumeReferencePoint(s, pos)
    ELSE After(StoreRefined(RefineClick(s, s.tracking_enabled, pos)),
               "advance_to_next_preselection_frame")

\* advance_to_next_preselection_frame()
AdvanceToNextPreselectionFrame(s) ==
    IF s.preselection_paused THEN s
    ELSE LoadFrameForPreselection(
             [s EXCEPT !.current_frame_index = @ + 1], s.current_frame_index + 1)


\* pause_preselection()
PausePreselection(s) ==
    Config(Config(Config([s EXCEPT !.preselection_paused = TRUE],
        "go_back_button", TRUE), "skip_frame_button", TRUE),
        "clear_position_button", TRUE)

\* a resume that keeps the entry of the current frame
ResumeKeepingCurrent(s) ==
    LET s1 == Config(Config(Config([s EXCEPT !.preselection_paused = FALSE],
                  "go_back_button", FALSE), "skip_frame_button", FALSE),
                  "clear_position_button", FALSE)
        s2 == InPlace(s1, Take(s1.preselected_positions, s1.current_frame_index + 1))
    IN  IF s.tracking_enabled
        THEN [s2 EXCEPT !.waiting_for_resume_reference = TRUE]
        ELSE After(s2, "load_frame_for_preselection")

\* resume_preselection()
ResumePreselection(s) ==
    LET s1 == Config(Config(Config([s EXCEPT !.preselection_paused = FALSE],
                  "go_back_button", FALSE), "skip_frame_button", FALSE),
                  "clear_position_button", FALSE)
        s2 == InPlace(s1, Take(s1.preselected_positions, s1.current_frame_index))
    IN  IF s.tracking_enabled
        THEN [s2 EXCEPT !.waiting_for_resume_reference = TRUE]
        ELSE After(s2, "load_frame_for_preselection")

\* toggle_preselection_pause()
TogglePreselectionPause(s) ==
    IF ~s.preselection_mode THEN s
    ELSE IF s.preselection_paused THEN ResumePreselection(s)
    ELSE PausePreselection(s)

\* stop_preselection_mode()
StopPreselectionMode(s) ==
    IF ~s.preselection_mode THEN s
    ELSE
    LET s1 == [s EXCEPT !.stop_preselection = TRUE, !.preselection_mode = FALSE,
                        !.preselection_paused = FALSE,
                        !.buttons =
                 [b \in ButtonNames |->
                    CASE b = "preselect_button" -> TRUE
                      [] b \in {"pause_preselect_button", "stop_preselect_button",
                                "go_back_button", "skip_frame_button"} -> FALSE
                      [] OTHER -> s.buttons[b]]]
    IN  IF Len(s.preselected_positions) > 0
        THEN LoadFirstImage(Config(AutoSaveStarPositions(s1),
                                   "batch_process_button", TRUE))
        ELSE LoadFirstImage(s1)

\* load_frame_for_preselection_pause(frame_index)
LoadFrameForPreselectionPause(s, frame_index) ==
    IF frame_index < 0 \/ frame_index >= s.num_files THEN s
    ELSE [s EXCEPT !.current_image = frame_index,
                   !.star_selected =
                       /\ frame_index < Len(s.preselected_positions)
                       /\ s.preselected_positions[frame_index + 1] # None]

\* load_frame_for_pause_navigation(frame_index)
LoadFrameForPauseNavigation(s, frame_index) ==
    IF frame_index < 0 \/ frame_index >= s.num_files THEN s
    ELSE [s EXCEPT !.current_image = frame_index,
                   !.star_selected =
                       IF /\ frame_index < Len(s.preselected_positions)
                          /\ s.preselected_positions[frame_index + 1] # None
                       THEN TRUE ELSE @]

\* the frame shown after go_back_frame / skip_frame moved current_frame_index
ShowNavigatedFrame(s) ==
    IF s.preselection_mode /\ s.preselection_paused
    THEN LoadFrameForPreselectionPause(s, s.current_frame_index)
    ELSE IF s.num_files > 0
    THEN LoadFrameForPauseNavigation(s, s.current_frame_index)
    ELSE s

\* go_back_frame()
GoBackFrame(s) ==
    IF s.current_frame_index <= 0 THEN s
    ELSE IF s.preselection_mode /\ ~s.preselection_paused THEN s
    ELSE ShowNavigatedFrame([s EXCEPT !.current_frame_index = @ - 1])

\* a skip_frame without its bounds check
SkipWithoutBound(s) ==
    IF s.preselection_mode /\ ~s.preselection_paused THEN s
    ELSE ShowNavigatedFrame([s EXCEPT !.current_frame_index = @ + 1])

\* skip_frame()
SkipFrame(s) ==
    IF s.current_frame_index >= s.num_files - 1 THEN s
    ELSE IF s.preselection_mode /\ ~s.preselection_paused THEN s
    ELSE ShowNavigatedFrame([s EXCEPT !.current_frame_index = @ + 1])


\* load_frame_for_tracking(frame_index) / finish_sequential_tracking()
FinishSequentialTracking(s) ==
    LET s1 == Config(Config([s EXCEPT !.sequential_mode = FALSE],
                            "go_back_button", FALSE), "skip_frame_button", FALSE)
    IN  IF s.photometry_results # <<>> THEN LoadFirstImage(s1) ELSE s1

LoadFrameForTracking(s, frame_index) ==
    IF frame_index >= s.num_files THEN FinishSequentialTracking(s)
    ELSE [s EXCEPT !.current_image = frame_index]

\* start_sequential_tracking(), past validate_inputs
StartSequentialTracking(s) ==
    LoadFrameForTracking(
        Config(Config([s EXCEPT !.sequential_mode = TRUE, !.current_frame_index = 0,
                                !.frame_positions = <<>>,
                                !.photometry_results = <<>>],
                      "go_back_button", FALSE), "skip_frame_button", FALSE), 0)

\* start_manual_tracking_mode()
StartManualTrackingMode(s) ==
    LoadFrameForTracking(
        Config(Config([s EXCEPT !.sequential_mode = TRUE, !.current_frame_index = 0,
                                !.frame_positions = s.preselected_positions,
                                !.photometry_results = <<>>],
                      "go_back_button", FALSE), "skip_frame_button", FALSE), 0)

\* the distance between two positions, in 1/Scale pixel
Movement(p, q) == ISqrt(Dist2(p, q))

\* process_current_frame(star_pos): the result is appended unless a lookup
\* raises, which the method's except branch swallows
ProcessCurrentFrame(s, star_pos) ==
    LET frame_index == s.current_frame_index
        needs_prev  == frame_index > 0 /\ Len(s.frame_positions) > 1
        raises ==
            \/ frame_index >= s.num_files
            \/ s.current_image = NoImage
            \/ /\ needs_prev
               /\ \/ frame_index > Len(s.frame_positions)
                  \/ s.frame_positions[frame_index] = None
        movement == IF needs_prev
                    THEN Movement(star_pos, s.frame_positions[frame_index])
                    ELSE 0
    IN  IF raises THEN s
        ELSE [s EXCEPT !.photometry_results =
                 Append(@, [image_index |-> frame_index,
                            tracked_position |-> star_pos,
                            movement_pixels |-> movement])]

\* on_sequential_tracking_click(event)
OnSequentialTrackingClick(s, pos) ==
    After(ProcessCurrentFrame(
              [s EXCEPT !.frame_positions = Append(@, pos), !.star_selected = TRUE],
              pos),
          "advance_to_next_frame")

\* advance_to_next_frame()
AdvanceToNextFrame(s) ==
    LET s1 == [s EXCEPT !.current_frame_index = @ + 1]
    IN  IF s1.current_frame_index >= s.num_files
        THEN FinishSequentialTracking(s1)
        ELSE LoadFrameForTracking(s1, s1.current_frame_index)

\* pause_processing(), with enable_pause_navigation()
PauseProcessing(s) ==
    LET mode == IF s.preselection_mode THEN "preselection"
                ELSE IF s.batch_processing_mode THEN "batch"
                ELSE IF s.sequential_mode THEN "sequential"
                ELSE "regular"
        \* current_batch_index is never assigned: the batch branch reads 0
        index == IF mode \in {"preselection", "sequential"}
                 THEN s.current_frame_index ELSE 0
        s1 == Config(Config([s EXCEPT !.paused = TRUE,
                                      !.paused_tracking_mode = mode,
                                      !.paused_frame_index = index],
                            "go_back_button", TRUE), "skip_frame_button", TRUE)
    IN  IF s.num_files > 0
        THEN LoadFrameForPauseNavigation([s1 EXCEPT !.current_frame_index = index],
                                         index)
        ELSE s1

\* resume_from_button()
ResumeFromButton(s) ==
    IF ~s.paused THEN s ELSE [s EXCEPT !.waiting_for_resume_click = TRUE]

\* the 'final stop' branch of stop_photometry_processing()
FinalStop(s) ==
    LET s1 == [s EXCEPT !.stop_processing = TRUE, !.paused = FALSE]
    IN  IF s.preselected_positions # <<>> THEN AutoSaveStarPositions(s1) ELSE s1

\* a second test that looks at processing alone
OnlyProcessing(s) == s.processing

\* if not self.processing and not self.batch_processing_mode and not
\* self.preselection_mode: return
NothingRunning(s) == ~s.processing /\ ~s.batch_processing_mode /\ ~s.preselection_mode

\* if self.processing or self.batch_processing_mode or self.preselection_mode
StillRunning(s) == s.processing \/ s.batch_processing_mode \/ s.preselection_mode

\* stop_photometry_processing()
StopPhotometryProcessing(s) ==
    IF NothingRunning(s) THEN s
    ELSE IF s.paused THEN ResumeFromButton(s)
    ELSE IF StillRunning(s) THEN PauseProcessing(s)
    ELSE FinalStop(s)

\* mark_frames_for_reprocessing_from(start_frame)
MarkFramesForReprocessingFrom(s, start_frame) ==
    IF s.paused_tracking_mode = "preselection"
    THEN InPlace(s, Take(s.preselected_positions, start_frame + 1))
    ELSE IF s.paused_tracking_mode = "sequential"
    THEN [s EXCEPT !.frame_positions = Take(@, start_frame + 1),
                   !.photometry_results = Take(@, start_frame + 1)]
    ELSE s

\* update_position_after_navigation(x, y).  In the 'batch' and 'regular'
\* modes the method raises at its first read of old_pos, nothing written.
UpdatePositionAfterNavigation(s, pos) ==
    IF ~s.paused THEN s
    ELSE IF s.paused_tracking_mode = "preselection"
    THEN Written(MarkFramesForReprocessingFrom(
                     StorePosition(s, s.current_frame_index, pos),
                     s.current_frame_index),
                 "preselection", s.current_frame_index, s.preselected_positions,
                 SetAt(s.preselected_positions, s.current_frame_index, pos))
    ELSE IF s.paused_tracking_mode = "sequential"
    THEN Written(MarkFramesForReprocessingFrom(
                     [s EXCEPT !.frame_positions =
                                   SetAt(@, s.current_frame_index, pos)],
                     s.current_frame_index),
                 "sequential", s.current_frame_index, s.frame_positions,
                 SetAt(s.frame_positions, s.current_frame_index, pos))
    ELSE s

RECURSIVE ResultsBefore(_, _)
ResultsBefore(results, idx) ==
    IF results = <<>> THEN <<>>
    ELSE IF Head(results).image_index < idx
         THEN <<Head(results)>> \o ResultsBefore(Tail(results), idx)
         ELSE ResultsBefore(Tail(results), idx)

\* clear_data_from_current_frame()
ClearDataFromCurrentFrame(s) ==
    LET current_idx == s.current_frame_index
        s1 == IF s.preselected_positions # <<>>
              THEN Rebind(s, Take(s.preselected_positions, current_idx))
              ELSE s
    IN  [s1 EXCEPT !.photometry_results = ResultsBefore(@, current_idx),
                   !.frame_positions = Take(@, current_idx)]

\* the click of resume_from_pause refined and handed to
\* update_position_after_navigation, which stores nothing: paused is
\* already False
ResumeRefined(r) ==
    [UpdatePositionAfterNavigation(r.s, r.pos) EXCEPT !.star_selected = TRUE]

\* resume_from_pause(event), after clear_data_from_current_frame() and
\* paused = False
ResumeCleared(s, mode, pos) ==
    [(IF mode = "preselection"
      THEN After(ResumeRefined(RefineClick(s, s.tracking_enabled, pos)),
                 "advance_to_next_preselection_frame")
      ELSE IF mode = "sequential"
      THEN After(ResumeRefined(RefineClick(s, s.tracking_enabled, pos)),
                 "advance_to_next_frame")
      ELSE s)
       EXCEPT !.paused_tracking_mode = NoMode]

\* resume_from_pause(event)
ResumeFromPause(s, pos) ==
    ResumeCleared(
        Config(Config([ClearDataFromCurrentFrame(s) EXCEPT !.paused = FALSE],
                      "go_back_button", FALSE), "skip_frame_button", FALSE),
        s.paused_tracking_mode, pos)

\* update_position_during_pause(event)
UpdatePositionDuringPause(s, pos) ==
    IF s.waiting_for_resume_click
    THEN ResumeFromPause([s EXCEPT !.waiting_for_resume_click = FALSE], pos)
    ELSE IF s.paused_tracking_mode \in {"preselection", "sequential"}
    THEN [UpdatePositionAfterNavigation(s, pos) EXCEPT !.star_selected = TRUE]
    ELSE s

\* on_image_click(event)
OnImageClick(s, pos, button) ==
    IF s.paused THEN UpdatePositionDuringPause(s, pos)
    ELSE IF s.processing THEN s
    ELSE IF s.preselection_mode THEN OnPreselectionClick(s, pos, button)
    ELSE IF s.sequential_mode THEN OnSequentialTrackingClick(s, pos)
    ELSE [s EXCEPT !.star_selected = TRUE]


\* the batch set-up shared by start_batch_processing() and
\* start_automatic_batch_processing(), ending in thread.start()
BeginBatch(s) ==
    Config(Config(ResetTrackingHistory(
        [s EXCEPT !.batch_processing_mode = TRUE, !.processing = TRUE,
                  !.stop_processing = FALSE, !.photometry_results = <<>>,
                  !.worker_pc = "start"]),
        "batch_process_button", FALSE), "stop_button", TRUE)

\* start_batch_processing(): the positions file is read, the folder's files
\* are listed when none are loaded, and the batch starts when confirmed
StartBatchProcessing(s, confirmed) ==
    LET s1 == Rebind([s EXCEPT !.num_files = IF @ = 0 THEN NumFrames ELSE @],
                     s.positions_csv)
    IN  IF confirmed THEN BeginBatch(s1) ELSE s1

\* start_automatic_batch_processing()
StartAutomaticBatchProcessing(s) == BeginBatch(s)

\* process_single_image: the result record
Result(image_index, tracked_pos, movement) ==
    [image_index |-> image_index, tracked_position |-> tracked_pos,
     movement_pixels |-> movement]

\* process_single_image, the batch branch: the pre-selected position is
\* used as it is; NoResult when a lookup raises
BatchBranch(s, expected_pos, image_index) ==
    LET pre == s.preselected_positions
        raises ==
            \/ expected_pos = None
            \/ /\ image_index # 0
               /\ \/ pre = <<>>
                  \/ pre[1] = None
    IN  IF raises THEN NoResult
        ELSE Result(image_index, expected_pos,
                    IF image_index = 0 THEN 0 ELSE Movement(expected_pos, pre[1]))

\* process_single_image, except: the error goes to the status log and None
\* is returned
Failed(s, image_index) ==
    [s EXCEPT !.worker_result = NoResult, !.status_errors = @ \cup {image_index}]

\* process_single_image returns r
Returned(s, image_index, r) ==
    IF r = NoResult THEN Failed(s, image_index) ELSE [s EXCEPT !.worker_result = r]

\* process_single_image, the tracking branch: the position the tracker
\* returns is measured
TrackedResult(t, expected_pos, image_index) ==
    [t EXCEPT !.worker_result =
        Result(image_index, t.last_track.pos, Movement(t.last_track.pos, expected_pos))]

\* process_single_image(fits_file, expected_pos, image_index); worker_result
\* is the value returned.  fits.open raises for a file that cannot be read.
\* Without tracking the dialog of
\* manual_star_reposition is answered No.
ProcessSingleImage(s, expected_pos, image_index) ==
    IF image_index \in s.unreadable THEN Failed(s, image_index)
    ELSE IF s.batch_processing_mode
    THEN Returned(s, image_index, BatchBranch(s, expected_pos, image_index))
    ELSE IF expected_pos = None THEN Failed(s, image_index)
    ELSE IF image_index = 0
    THEN Returned(s, image_index, Result(image_index, expected_pos, 0))
    ELSE IF s.tracking_enabled
    THEN TrackedResult(Track(s, image_index, expected_pos, "worker"), expected_pos,
                       image_index)
    ELSE Failed(s, image_index)

\* process_batch_photometry(), statement by statement -----------------------

\* a worker that never looks at stop_processing
StopIgnored(s) == FALSE

\* if self.stop_processing: break
StopObserved(s) == s.stop_processing

\* the zip(...) of the for statement is evaluated
WorkerStart ==
    /\ worker_pc = "start"
    /\ Becomes([Self EXCEPT !.worker_pc = "next", !.worker_i = 0,
                            !.worker_n = Min(num_files, Len(preselected_positions)),
                            !.worker_positions = preselected_positions,
                            !.worker_alias = TRUE])

\* the for statement takes the next pair, then the first stop check
WorkerNext ==
    /\ worker_pc = "next"
    /\ Becomes(
         IF worker_i >= worker_n \/ worker_i >= Len(worker_positions)
         THEN [Self EXCEPT !.worker_pc = "finally",
                           !.completed_run = [positions |-> worker_positions,
                                              results |-> photometry_results]]
         ELSE IF StopObserved(Self)
         THEN [Self EXCEPT !.worker_pc = "finally",
                           !.worker_star_pos = worker_positions[worker_i + 1]]
         ELSE [Self EXCEPT !.worker_pc = "wait",
                           !.worker_star_pos = worker_positions[worker_i + 1]])

\* a worker without the pause loop
NeverHeld(s) == FALSE

\* while self.paused and not self.stop_processing: time.sleep(0.1)
HeldInPauseLoop(s) == s.paused /\ ~StopObserved(s)

\* the pause loop ends, then the second stop check
WorkerWait ==
    /\ worker_pc = "wait"
    /\ ~HeldInPauseLoop(Self)
    /\ Becomes([Self EXCEPT !.worker_pc =
                   IF StopObserved(Self) THEN "finally" ELSE "process"])

\* The progress computation (which divides by len(preselected_positions))
\* and process_single_image.  Both talk to widgets: once the window is
\* destroyed either call may raise instead, the first ending the loop, the
\* second (caught in process_single_image) giving None.
WorkerProcess ==
    /\ worker_pc = "process"
    /\ \E outcome \in IF closed THEN {"ok", "progress raises", "display raises"}
                      ELSE {"ok"} :
         Becomes(
           IF preselected_positions = <<>> \/ outcome = "progress raises"
           THEN [Self EXCEPT !.worker_pc = "finally"]
           ELSE IF outcome = "display raises"
           THEN [Self EXCEPT !.worker_pc = "append", !.worker_result = NoResult]
           ELSE [ProcessSingleImage(Self, worker_star_pos, worker_i)
                    EXCEPT !.worker_pc = "append"])

\* a loop that ends when a frame gives no result, as process_photometry does
BreakOnNone(s) ==
    IF s.worker_result = NoResult THEN "finally" ELSE "next"

\* the for statement goes on with the next frame whatever the result was
AfterResult(s) == "next"

\* the result is appended unless it is None
WorkerAppend ==
    /\ worker_pc = "append"
    /\ Becomes([Self EXCEPT !.worker_pc = AfterResult(Self), !.worker_i = @ + 1,
                            !.worker_result = NoResult,
                            !.photometry_results =
                                IF worker_result = NoResult THEN @
                                ELSE Append(@, worker_result)])

\* finally: batch_processing_mode = False
WorkerFinallyMode ==
    /\ worker_pc = "finally"
    /\ Becomes([Self EXCEPT !.worker_pc = "finally2",
                            !.batch_processing_mode = FALSE])

\* finally: processing = False, the buttons, and the thread ends
WorkerFinallyEnd ==
    /\ worker_pc = "finally2"
    /\ Becomes(Config(Config(
          [Self EXCEPT !.worker_pc = "idle", !.processing = FALSE,
                       !.worker_positions = <<>>, !.worker_alias = FALSE,
                       !.worker_star_pos = None, !.worker_i = 0, !.worker_n = 0],
          "batch_process_button", TRUE), "stop_button", FALSE))

\* the GUI thread ---------------------------------------------------------

TimersPending(s) == SumFn(s.timers, TimerNames)

\* a user action that changes something, within the bounds of the run
User(r) ==
    /\ ~closed
    /\ events < MaxEvents
    /\ r # Self
    /\ TimersPending(r) <= MaxPending
    /\ Becomes([r EXCEPT !.events = @ + 1])

SelectFitsFolder ==
    /\ ~closed
    /\ User(LoadFirstImage([Self EXCEPT !.num_files = NumFrames]))

Click ==
    /\ ~closed
    /\ \E pos \in ClickPositions, button \in {1, 3} :
         User(OnImageClick(Self, pos, button))

PressPreselect ==
    /\ buttons["preselect_button"]
    /\ num_files > 0 /\ star_selected
    /\ User(StartPreselectionMode(Self))

PressPausePreselect ==
    /\ buttons["pause_preselect_button"]
    /\ User(TogglePreselectionPause(Self))

PressStopPreselect ==
    /\ buttons["stop_preselect_button"]
    /\ User(StopPreselectionMode(Self))

PressClearPosition ==
    /\ buttons["clear_position_button"]
    /\ User(ClearCurrentFramePosition(Self))

PressStop ==
    /\ buttons["stop_button"]
    /\ User(StopPhotometryProcessing(Self))

PressGoBack ==
    /\ buttons["go_back_button"]
    /\ User(GoBackFrame(Self))

PressSkipFrame ==
    /\ buttons["skip_frame_button"]
    /\ User(SkipFrame(Self))

\* one worker thread is modelled: the batch starts when none is running
PressBatchProcess ==
    /\ buttons["batch_process_button"]
    /\ worker_pc = "idle"
    /\ positions_csv # <<>>
    /\ \E confirmed \in BOOLEAN : User(StartBatchProcessing(Self, confirmed))

\* the "Enable automatic star tracking" checkbox
ToggleTracking ==
    /\ ~closed
    /\ User([Self EXCEPT !.tracking_enabled = ~@])

\* The methods no widget is bound to.  Nothing in the repository calls them;
\* their caller is taken to start a session from the idle application.
Idle(s) ==
    /\ ~s.preselection_mode /\ ~s.sequential_mode /\ ~s.batch_processing_mode
    /\ ~s.processing /\ ~s.paused

CallStartSequentialTracking ==
    /\ Idle(Self)
    /\ num_files > 0 /\ star_selected
    /\ User(StartSequentialTracking(Self))

CallStartManualTrackingMode ==
    /\ Idle(Self)
    /\ User(StartManualTrackingMode(Self))

CallStartAutomaticBatchProcessing ==
    /\ Idle(Self)
    /\ worker_pc = "idle"
    /\ User(StartAutomaticBatchProcessing(Self))

\* on_closing() of main() while processing: stop_processing is set and the
\* window destroyed, after which no callback runs.  (When not processing the
\* window is destroyed and the program ends.)
OnClosing ==
    /\ ~closed
    /\ processing
    /\ Becomes([Self EXCEPT !.closed = TRUE, !.stop_processing = TRUE,
                            !.stop_snapshot =
                                [results |-> photometry_results,
                                 in_flight |-> worker_pc \in {"process", "append"},
                                 worker_i |-> worker_i, worker_n |-> worker_n]])

\* a pending root.after callback runs
Fire(name, r) ==
    /\ ~closed
    /\ Becomes(r)

Expired(name) == [Self EXCEPT !.timers[name] = @ - 1]

TimerAdvanceToNextFrame ==
    /\ timers["advance_to_next_frame"] > 0
    /\ Fire("advance_to_next_frame",
            AdvanceToNextFrame(Expired("advance_to_next_frame")))

TimerAdvanceToNextPreselectionFrame ==
    /\ timers["advance_to_next_preselection_frame"] > 0
    /\ Fire("advance_to_next_preselection_frame",
            AdvanceToNextPreselectionFrame(
                Expired("advance_to_next_preselection_frame")))

TimerLoadFrameForPreselection ==
    /\ timers["load_frame_for_preselection"] > 0
    /\ Fire("load_frame_for_preselection",
            LoadFrameForPreselection(Expired("load_frame_for_preselection"),
                                     current_frame_index))

Constructed(saved) ==
    /\ num_files = 0
    /\ current_image = NoImage
    /\ star_selected = FALSE
    /\ tracking_enabled = TRUE
    /\ processing = FALSE
    /\ stop_processing = FALSE
    /\ paused = FALSE
    /\ paused_tracking_mode = NoMode
    /\ paused_frame_index = 0
    /\ waiting_for_resume_click = FALSE
    /\ sequential_mode = FALSE
    /\ current_frame_index = 0
    /\ frame_positions = <<>>
    /\ preselection_mode = FALSE
    /\ preselected_positions = <<>>
    /\ preselection_paused = FALSE
    /\ waiting_for_resume_reference = FALSE
    /\ stop_preselection = FALSE
    /\ batch_processing_mode = FALSE
    /\ position_history = <<>>
    /\ velocity_history = <<>>
    /\ tracking_confidence = <<>>
    /\ photometry_results = <<>>
    /\ buttons = [b \in ButtonNames |->
                    b \in {"preselect_button", "batch_process_button"}]
    /\ timers = [t \in TimerNames |-> 0]
    /\ worker_pc = "idle"
    /\ worker_i = 0
    /\ worker_n = 0
    /\ worker_positions = <<>>
    /\ worker_alias = FALSE
    /\ worker_star_pos = None
    /\ worker_result = NoResult
    /\ old_worker_pc = "idle"
    /\ status_errors = {}
    /\ unreadable = {}
    /\ positions_csv = saved
    /\ closed = FALSE
    /\ last_track = NoTrack
    /\ pause_write = NoWrite
    /\ stop_snapshot = NoSnapshot
    /\ pushed = <<>>
    /\ last_call = NoCall
    /\ completed_run = NoRun
    /\ events = 0

\* no positions file has been saved yet
Init == Constructed(<<>>)

Next ==
    \/ SelectFitsFolder
    \/ Click
    \/ PressPreselect
    \/ PressPausePreselect
    \/ PressStopPreselect
    \/ PressClearPosition
    \/ PressStop
    \/ PressGoBack
    \/ PressSkipFrame
    \/ PressBatchProcess
    \/ ToggleTracking
    \/ CallStartSequentialTracking
    \/ CallStartManualTrackingMode
    \/ CallStartAutomaticBatchProcessing
    \/ OnClosing
    \/ TimerAdvanceToNextFrame
    \/ TimerAdvanceToNextPreselectionFrame
    \/ TimerLoadFrameForPreselection
    \/ WorkerStart
    \/ WorkerNext
    \/ WorkerWait
    \/ WorkerProcess
    \/ WorkerAppend
    \/ WorkerFinallyMode
    \/ WorkerFinallyEnd

Spec == Init /\ [][Next]_vars

(***************************************************************************)
(* Batch runs from a positions file saved by an earlier session, with a    *)
(* second run started while the thread of the first is still ending.       *)
(***************************************************************************)

\* the positions file chosen in the dialog of start_batch_processing
SavedPositions ==
    <<<<20 * Scale, 20 * Scale>>, <<23 * Scale, 20 * Scale>>, <<23 * Scale, 20 * Scale>>>>

InitSaved == Constructed(SavedPositions)

\* "Run Photometry" pressed again (the button was enabled again by a
\* pre-selection that ended) while the worker of the previous run is in its
\* finally block: a second thread starts and the first goes on
PressBatchProcessWhileEnding ==
    /\ buttons["batch_process_button"]
    /\ worker_pc \in {"finally", "finally2"}
    /\ old_worker_pc = "idle"
    /\ positions_csv # <<>>
    /\ User([StartBatchProcessing(Self, TRUE) EXCEPT !.old_worker_pc = worker_pc])

\* the earlier thread's finally: batch_processing_mode = False
OldWorkerFinallyMode ==
    /\ old_worker_pc = "finally"
    /\ Becomes([Self EXCEPT !.old_worker_pc = "finally2",
                            !.batch_processing_mode = FALSE])

\* the earlier thread's finally: processing = False, the buttons, and the
\* thread ends
OldWorkerFinallyEnd ==
    /\ old_worker_pc = "finally2"
    /\ Becomes(Config(Config(
          [Self EXCEPT !.old_worker_pc = "idle", !.processing = FALSE],
          "batch_process_button", TRUE), "stop_button", FALSE))

\* the file of a frame is damaged or removed while a batch runs
FileBecomesUnreadable ==
    /\ worker_pc \notin {"idle", "finally", "finally2"}
    /\ unreadable = {}
    /\ ~closed
    /\ \E frame \in 0 .. (NumFrames - 1) :
         Becomes([Self EXCEPT !.unreadable = {frame}])

NextBatch ==
    \/ SelectFitsFolder
    \/ Click
    \/ PressPreselect
    \/ PressStopPreselect
    \/ PressBatchProcess
    \/ PressBatchProcessWhileEnding
    \/ TimerAdvanceToNextPreselectionFrame
    \/ TimerLoadFrameForPreselection
    \/ WorkerStart
    \/ WorkerNext
    \/ WorkerWait
    \/ WorkerProcess
    \/ WorkerAppend
    \/ WorkerFinallyMode
    \/ WorkerFinallyEnd
    \/ OldWorkerFinallyMode
    \/ OldWorkerFinallyEnd

SpecBatch == InitSaved /\ [][NextBatch]_vars

\* batch runs over the saved positions, paused, resumed and stopped, with a
\* frame that may become unreadable
NextRun ==
    \/ FileBecomesUnreadable
    \/ PressBatchProcess
    \/ PressStop
    \/ Click
    \/ WorkerStart
    \/ WorkerNext
    \/ WorkerWait
    \/ WorkerProcess
    \/ WorkerAppend
    \/ WorkerFinallyMode
    \/ WorkerFinallyEnd

SpecRun == InitSaved /\ [][NextRun]_vars

\* The same runs to their end: the window may be closed, and the worker
\* thread, once started, is scheduled again and again until it ends (the pause
\* loop polls every 0.1 s).
WorkerAction ==
    \/ WorkerStart
    \/ WorkerNext
    \/ WorkerWait
    \/ WorkerProcess
    \/ WorkerAppend
    \/ WorkerFinallyMode
    \/ WorkerFinallyEnd

MaxRunEvents == 6

UserInRun ==
    /\ events < MaxRunEvents
    /\ \/ PressBatchProcess
       \/ PressStop
       \/ Click

NextRunToEnd ==
    \/ UserInRun
    \/ OnClosing
    \/ WorkerAction

\* The worker's turn: WorkerAction is enabled exactly when the thread exists
\* and is not held in the pause loop, and the steps that change worker_pc
\* from a value other than "idle" are exactly the steps of WorkerAction.
WorkerPcs == {"idle", "start", "next", "wait", "process", "append", "finally", "finally2"}

WorkerTurn ==
    /\ worker_pc # "idle"
    /\ worker_pc = "wait" => ~HeldInPauseLoop(Self)
    /\ worker_pc' \in WorkerPcs

FairRun == InitSaved /\ [][NextRunToEnd]_vars /\ WF_worker_pc(WorkerTurn)

\* the pre-selection phase alone: clicks, automatic tracking, pauses,
\* navigation, clears, resumes and Stop & Save
NextPreselection ==
    \/ SelectFitsFolder
    \/ Click
    \/ ToggleTracking
    \/ PressPreselect
    \/ PressPausePreselect
    \/ PressStopPreselect
    \/ PressClearPosition
    \/ PressGoBack
    \/ PressSkipFrame
    \/ TimerAdvanceToNextPreselectionFrame
    \/ TimerLoadFrameForPreselection

SpecPreselection == Init /\ [][NextPreselection]_vars


(***************************************************************************)
(* The tracker on its own: track_star_position called on any of the        *)
(* frames, with any expected position and radius, the history growing      *)
(* from call to call.                                                      *)
(***************************************************************************)

\* calls explored in one run
MaxTrackCalls == 3
\* expected positions: the click positions and one right of the plane
TrackExpected == ClickPositions \cup {<<70 * Scale, 20 * Scale>>}
\* the ends of the search radius slider's lower half
TrackRadii == {10, 25}

TrackCall ==
    /\ events < MaxTrackCalls
    /\ \E frame \in 0 .. (NumFrames - 1), expected_pos \in TrackExpected,
          radius \in TrackRadii :
         Becomes([AfterTrack(Self, frame, expected_pos, radius, "call",
                             TrackStarPosition(TrackingHistory(Self),
                                               FramePlane(frame), expected_pos,
                                               radius))
                    EXCEPT !.events = @ + 1])

NextTrack == TrackCall

SpecTrack == Init /\ [][NextTrack]_vars

\* A further plane for the tracker: a bright star 7 pixels and a star of
\* half its weight 1 pixel from the left edge, so that the center of mass of
\* the two lies exactly 5 pixels from that edge while the window around the
\* peak holds the bright star alone.  It is not a frame of the folder; calls
\* on it carry the index NumFrames.
EdgePlane ==
    [w |-> PlaneW, h |-> PlaneH, bg |-> Background,
     stars |-> {<<7, 20, 2 * StarValue - Background>>, <<1, 20, StarValue>>}]
TrackPlane(frame) == IF frame < NumFrames THEN FramePlane(frame) ELSE EdgePlane

TrackEdgeCall ==
    /\ events < MaxTrackCalls
    /\ \E expected_pos \in TrackExpected, radius \in TrackRadii :
         Becomes([AfterTrack(Self, NumFrames, expected_pos, radius, "call",
                             TrackStarPosition(TrackingHistory(Self), EdgePlane,
                                               expected_pos, radius))
                    EXCEPT !.events = @ + 1])

NextAccept ==
    \/ TrackCall
    \/ TrackEdgeCall

SpecAccept == Init /\ [][NextAccept]_vars


(***************************************************************************)
(* The tracking history on its own: _update_tracking_history called with   *)
(* any positions and confidences, resets in between, and the two methods   *)
(* that read the history called on what the pushes left.                   *)
(***************************************************************************)

\* calls of _update_tracking_history and resets explored in one run
MaxPushes == 7
\* the positions pushed, each with the confidence of the method that found it
HistoryPushes ==
    {<<<<20 * Scale, 20 * Scale>>, Conf08>>,
     <<<<23 * Scale, 20 * Scale>>, Conf06>>,
     <<<<20 * Scale, 32 * Scale>>, Conf01>>}

PushCall ==
    /\ events < MaxPushes
    /\ \E push \in HistoryPushes :
         LET h == UpdateTrackingHistory(TrackingHistory(Self), push[1], push[2])
         IN  Becomes([Self EXCEPT !.position_history = h.position_history,
                                  !.velocity_history = h.velocity_history,
                                  !.tracking_confidence = h.tracking_confidence,
                                  !.pushed = Append(@, push),
                                  !.last_call = NoCall,
                                  !.events = @ + 1])

\* the three assignments that start a session
ResetCall ==
    /\ events < MaxPushes
    /\ pushed # <<>>
    /\ Becomes([ResetTrackingHistory(Self) EXCEPT !.last_call = NoCall,
                                                  !.events = @ + 1])

PredictCall ==
    /\ last_call = NoCall
    /\ \E expected_pos \in TrackExpected :
         Becomes([Self EXCEPT !.last_call =
             [op |-> "_predict_position_with_momentum",
              expected_pos |-> expected_pos,
              result |-> PredictPositionWithMomentum(TrackingHistory(Self),
                                                     expected_pos)]])

RadiusCall ==
    /\ last_call = NoCall
    /\ \E base_radius \in TrackRadii :
         Becomes([Self EXCEPT !.last_call =
             [op |-> "_calculate_adaptive_search_radius",
              base_radius |-> base_radius,
              result |-> CalculateAdaptiveSearchRadius(TrackingHistory(Self),
                                                       base_radius)]])

NextHistory ==
    \/ PushCall
    \/ ResetCall
    \/ PredictCall
    \/ RadiusCall

SpecHistory == Init /\ [][NextHistory]_vars


(***************************************************************************)
(* Aperture photometry: perform_aperture_photometry and                    *)
(* perform_rgb_photometry on their own.  Fluxes and sky values are         *)
(* fixed-point (1/Scale ADU); areas are whole pixels.  photutils weighs a  *)
(* pixel by the part of it the aperture covers; here a pixel counts whole  *)
(* when its centre lies in the aperture and not at all otherwise, for the  *)
(* sums and for the areas alike, so that the area of an aperture that lies *)
(* on the image is the sum of its weights, as in photutils.                *)
(***************************************************************************)

\* the pixels whose centre lies farther than r_in and at most r_out pixels
\* from pos (r_in < 0: the disc of radius r_out)
AperturePixels(pos, r_in, r_out) ==
    {px \in ((PyInt(pos[1]) - r_out - 1) .. (PyInt(pos[1]) + r_out + 1))
              \X ((PyInt(pos[2]) - r_out - 1) .. (PyInt(pos[2]) + r_out + 1)) :
        /\ Dist2(<<px[1] * Scale, px[2] * Scale>>, pos) <= r_out * r_out * Scale * Scale
        /\ r_in >= 0 =>
               Dist2(<<px[1] * Scale, px[2] * Scale>>, pos) > r_in * r_in * Scale * Scale}

\* CircularAperture((x, y), r) and CircularAnnulus((x, y), r_in, r_out); the
\* annulus constructor raises ValueError unless r_out > r_in
CircularAperture(pos, r) == [raised |-> FALSE, pixels |-> AperturePixels(pos, 0 - 1, r)]
CircularAnnulus(pos, r_in, r_out) ==
    IF r_out > r_in
    THEN [raised |-> FALSE, pixels |-> AperturePixels(pos, r_in, r_out)]
    ELSE [raised |-> TRUE, pixels |-> {}]

\* aperture.area
ApertureArea(aperture) == Cardinality(aperture.pixels)

\* the pixels of an aperture that lie on the plane
OnPlane(plane, pixels) ==
    {px \in pixels : /\ 0 <= px[1] /\ px[1] < plane.w
                     /\ 0 <= px[2] /\ px[2] < plane.h}

\* the values of a set of pixels of the plane as a bag: value -> count
PixelBag(plane, pixels) ==
    LET st  == {q \in plane.stars : <<q[1], q[2]>> \in pixels}
        nbg == Cardinality(pixels) - Cardinality(st)
        vals == {q[3] : q \in st} \cup (IF nbg > 0 THEN {plane.bg} ELSE {})
    IN  [v \in vals |->
            Cardinality({q \in st : q[3] = v}) + (IF v = plane.bg THEN nbg ELSE 0)]

BagSum(b) == SumFn([v \in DOMAIN b |-> v * b[v]], DOMAIN b)

\* SigmaClip(sigma=3.0, maxiters=10)
photometry_maxiters == 10

\* ApertureStats(image_data, aperture): sum and sum_aper_area over the
\* pixels of the aperture that the image has
StatsOfBag(b) == [sum |-> BagSum(b) * Scale, sum_aper_area |-> BagCount(b)]
ApertureStats(plane, aperture) == StatsOfBag(PixelBag(plane, OnPlane(plane, aperture.pixels)))

\* ApertureStats(image_data, sky_annulus, sigma_clip=sigclip): median and std
\* of the values that survive the clipping
ClippedStatsOfBag(b, unclipped) ==
    [median |-> BagMedian(b), std |-> BagStd(b), sum_aper_area |-> BagCount(unclipped)]
SkyStatsOfBag(b) == ClippedStatsOfBag(SigmaClip(b, photometry_maxiters), b)
SkyStats(plane, annulus) == SkyStatsOfBag(PixelBag(plane, OnPlane(plane, annulus.pixels)))

\* np.sqrt(abs(star_flux_raw)) if star_flux_raw > 0 else 0
PoissonNoise(star_flux_raw) ==
    IF star_flux_raw > 0 THEN ISqrt(star_flux_raw * Scale) ELSE 0

\* the measurement of one channel
Measured(star_flux_raw, sky_background_total, sky_median, sky_std) ==
    [star_flux_raw |-> star_flux_raw,
     sky_background_total |-> sky_background_total,
     sky_per_pixel |-> sky_median,
     sky_std |-> sky_std,
     flux_corrected |-> star_flux_raw - sky_background_total,
     poisson_noise |-> PoissonNoise(star_flux_raw)]

\* perform_aperture_photometry: the branch without sky subtraction
MeasuredWithoutSky(aper_stats) == Measured(aper_stats.sum, 0, 0, 0)

\* perform_aperture_photometry: the branch with sky subtraction
MeasuredWithSky(aper_stats, bkg_stats) ==
    Measured(aper_stats.sum, bkg_stats.median * aper_stats.sum_aper_area,
             bkg_stats.median, bkg_stats.std)

\* perform_aperture_photometry(image_data, star_pos)
PerformAperturePhotometry(plane, star_pos, aperture_params) ==
    [raised |-> FALSE,
     aperture_area |-> ApertureArea(CircularAperture(star_pos, aperture_params.inner_radius)),
     channels |->
        [c \in {"gray"} |->
            IF aperture_params.inner_annulus >= aperture_params.outer_annulus
            THEN MeasuredWithoutSky(
                     ApertureStats(plane, CircularAperture(star_pos,
                                                           aperture_params.inner_radius)))
            ELSE MeasuredWithSky(
                     ApertureStats(plane, CircularAperture(star_pos,
                                                           aperture_params.inner_radius)),
                     SkyStats(plane, CircularAnnulus(star_pos,
                                                     aperture_params.inner_annulus,
                                                     aperture_params.outer_annulus)))]]

\* perform_rgb_photometry: one channel, or the grayscale plane
MeasuredChannel(star_photometry, bkg_stats, area) ==
    Measured(star_photometry.sum, bkg_stats.median * area, bkg_stats.median,
             bkg_stats.std)

RgbChannels == {"r", "g", "b", "gray"}

\* perform_rgb_photometry(rgb_data, gray_data, star_pos); planes maps "r",
\* "g", "b" to the channels of rgb_data and "gray" to gray_data
RgbWithApertures(planes, star_aperture, sky_annulus) ==
    IF sky_annulus.raised
    THEN [raised |-> TRUE, aperture_area |-> 0, channels |-> <<>>]
    ELSE [raised |-> FALSE,
          aperture_area |-> ApertureArea(star_aperture),
          channels |->
             [c \in RgbChannels |->
                 MeasuredChannel(ApertureStats(planes[c], star_aperture),
                                 SkyStats(planes[c], sky_annulus),
                                 ApertureArea(star_aperture))]]

PerformRgbPhotometry(planes, star_pos, aperture_params) ==
    RgbWithApertures(planes,
                     CircularAperture(star_pos, aperture_params.inner_radius),
                     CircularAnnulus(star_pos, aperture_params.inner_annulus,
                                     aperture_params.outer_annulus))

\* measurements explored: the frames of the session, as grayscale planes and
\* as the mean of three colour channels that differ by ChannelStep ADU
ChannelStep == 3
Shifted(plane, by) ==
    [plane EXCEPT !.bg = @ + by, !.stars = {<<q[1], q[2], q[3] + 2 * by>> : q \in @}]
RgbPlanes(plane) ==
    [c \in RgbChannels |->
        IF c = "r" THEN Shifted(plane, 0 - ChannelStep)
        ELSE IF c = "b" THEN Shifted(plane, ChannelStep)
        ELSE plane]

\* star positions: on the star, off it, and 2 pixels from the left edge
PhotometryPositions ==
    ClickPositions \cup {<<2 * Scale, 20 * Scale>>}

\* the three aperture sliders
ApertureSettings ==
    [inner_radius : {2, 3}, inner_annulus : {4, 5}, outer_annulus : {4, 5, 6}]

PhotometryCall(op, frame, star_pos, aperture_params, result) ==
    [op |-> op, frame |-> frame, star_pos |-> star_pos,
     aperture_params |-> aperture_params, result |-> result]

MeasureGray ==
    /\ last_call = NoCall
    /\ \E frame \in 0 .. (NumFrames - 1), star_pos \in PhotometryPositions,
          aperture_params \in ApertureSettings :
        Becomes([Self EXCEPT !.last_call =
            PhotometryCall("perform_aperture_photometry", frame, star_pos,
                           aperture_params,
                           PerformAperturePhotometry(FramePlane(frame), star_pos,
                                                     aperture_params))])

MeasureRgb ==
    /\ last_call = NoCall
    /\ \E frame \in 0 .. (NumFrames - 1), star_pos \in PhotometryPositions,
          aperture_params \in ApertureSettings :
        Becomes([Self EXCEPT !.last_call =
            PhotometryCall("perform_rgb_photometry", frame, star_pos,
                           aperture_params,
                           PerformRgbPhotometry(RgbPlanes(FramePlane(frame)), star_pos,
                                                aperture_params))])

NextPhotometry ==
    \/ MeasureGray
    \/ MeasureRgb

SpecPhotometry == Init /\ [][NextPhotometry]_vars


(***************************************************************************)
(* Properties                                                              *)
(***************************************************************************)

\* a sequential session and nothing else / a batch run and nothing else
OnlySequential ==
    sequential_mode /\ ~batch_processing_mode /\ ~preselection_mode /\ ~processing
OnlyBatch ==
    batch_processing_mode /\ ~sequential_mode /\ ~preselection_mode

\* the record r holds the position stored for its frame in the list l
ResultAt(l, r) ==
    /\ r.image_index < Len(l)
    /\ l[r.image_index + 1] = r.tracked_position

ResultsMatch(l) ==
    \A k \in 1 .. Len(photometry_results) : ResultAt(l, photometry_results[k])

\* C1: every record of photometry_results holds the position currently
\* stored for its frame in the session's position list (frame_positions in
\* sequential mode, preselected_positions in batch mode).
C1_ResultsHoldStoredPositions ==
    /\ OnlySequential => ResultsMatch(frame_positions)
    /\ OnlyBatch => ResultsMatch(preselected_positions)

\* the list a write to the paused session went to
WrittenList ==
    IF pause_write.via = "sequential" THEN frame_positions
    ELSE preselected_positions

\* C2: immediately after a position is written for frame k in a paused
\* session, the position list has length exactly k+1 and the result list
\* holds no record of a frame after k (and at most k+1 records).
C2_PauseWriteTruncates ==
    pause_write # NoWrite =>
        /\ Len(WrittenList) = pause_write.frame + 1
        /\ Len(photometry_results) <= pause_write.frame + 1
        /\ \A k \in 1 .. Len(photometry_results) :
               photometry_results[k].image_index <= pause_write.frame

\* C3: photometry_results never holds more records than the active position
\* list has entries (preselected_positions for batch, frame_positions for
\* sequential).
C3_ResultsWithinPositions ==
    /\ OnlySequential => Len(photometry_results) <= Len(frame_positions)
    /\ OnlyBatch => Len(photometry_results) <= Len(preselected_positions)

\* the frames up to the last result's frame that have a position in l
FramesWithPosition(l) ==
    {i \in 0 .. photometry_results[Len(photometry_results)].image_index :
        i < Len(l) /\ l[i + 1] # None}

ResultsFollow(l) ==
    /\ \A k \in 1 .. (Len(photometry_results) - 1) :
           photometry_results[k].image_index < photometry_results[k + 1].image_index
    /\ photometry_results # <<>> =>
           {photometry_results[k].image_index : k \in 1 .. Len(photometry_results)}
               = FramesWithPosition(l)

\* C4: the image_index values of photometry_results increase strictly in
\* list order, and the frames that have a result are exactly the frames, up
\* to the last result's, whose stored position is not None.
C4_ResultsOneToOneWithPositions ==
    /\ OnlySequential => ResultsFollow(frame_positions)
    /\ OnlyBatch => ResultsFollow(preselected_positions)

\* the resume click of a paused batch run that has completed a frame, the
\* user not having navigated away from the frame of the pause
BatchResumeClick ==
    /\ OnlyBatch /\ paused /\ paused_tracking_mode = "batch"
    /\ waiting_for_resume_click
    /\ current_frame_index = paused_frame_index
    /\ photometry_results # <<>>
    /\ ~paused'

\* C5: resuming a paused batch run without navigation or overwrite keeps
\* every result appended before the pause and leaves preselected_positions
\* unchanged.
C5_BatchResumeKeepsProgress ==
    [][BatchResumeClick =>
          /\ photometry_results' = photometry_results
          /\ preselected_positions' = preselected_positions]_vars

\* C6: once stop_processing is set while the batch worker runs, the worker
\* starts no further frame, and the results present when the flag was set
\* stay in photometry_results in the same order, followed at most by the
\* result of the frame that was in flight.
C6_StopKeepsResults ==
    stop_snapshot # NoSnapshot =>
        /\ Len(photometry_results) >= Len(stop_snapshot.results)
        /\ Take(photometry_results, Len(stop_snapshot.results)) = stop_snapshot.results
        /\ Len(photometry_results)
             <= Len(stop_snapshot.results) + (IF stop_snapshot.in_flight THEN 1 ELSE 0)
        /\ worker_pc \in {"process", "append"} =>
               /\ stop_snapshot.in_flight
               /\ worker_i = stop_snapshot.worker_i

\* the worker has ended after a stop that came with results present and
\* frames left to do
C6_StoppedRunEnded ==
    /\ stop_snapshot # NoSnapshot
    /\ worker_pc = "idle"
    /\ stop_snapshot.results # <<>>
    /\ stop_snapshot.worker_i + 1 < stop_snapshot.worker_n
    /\ Len(photometry_results) < stop_snapshot.worker_n

LastConfidence == tracking_confidence[Len(tracking_confidence)]

\* C7: track_star_position always returns a position, and when none of the
\* methods A, B, C accepted a candidate it returns the expected position and
\* records confidence 0.1.
C7_TotalWithLostFallback ==
    last_track # NoTrack =>
        /\ last_track.pos # None
        /\ last_track.path \notin {"com", "peak", "momentum"} =>
               /\ last_track.pos = last_track.expected
               /\ last_track.pushes = 1
               /\ tracking_confidence # <<>>
               /\ LastConfidence = Conf01

TimersPendingNow == SumFn(timers, TimerNames)

\* the automatic tracking of a pre-selection frame after the first has just
\* ended in the fallback (Lost)
AutoTrackLost ==
    /\ last_track' # last_track
    /\ last_track'.by = "auto"
    /\ last_track'.path = "fallback"
    /\ last_track'.frame > 0
    /\ preselection_mode'

\* C8: when the automatic tracking of frame i > 0 is Lost during
\* pre-selection, the session schedules no advance: the callback that loaded
\* the frame is spent and none takes its place.
C8_LostDoesNotAutoAdvance ==
    [][AutoTrackLost => TimersPendingNow' < TimersPendingNow]_vars

\* C9: every call of track_star_position appends exactly one entry, the
\* returned position with its confidence, to the tracking history.
C9_EveryCallPushesOnce ==
    last_track # NoTrack =>
        /\ last_track.pushes = 1
        /\ position_history # <<>>
        /\ position_history[Len(position_history)] = last_track.pos

\* the latest call found a non-empty cutout with no pixel above the threshold
NoSignalCall ==
    /\ last_track # NoTrack
    /\ last_track.path # "empty"
    /\ ~last_track.signal

\* C10: when the cutout holds no pixel above the threshold the tracker
\* returns exactly the expected position and records a confidence of at most
\* 0.1, whatever the tracking history.
C10_NoSignalReturnsExpected ==
    NoSignalCall =>
        /\ last_track.pos = last_track.expected
        /\ LastConfidence <= Conf01

\* C10 as the code has it: without signal the tracker returns the momentum
\* prediction with confidence 0.3 when that prediction differs from the
\* expected position and lies within the adaptive radius of it, and the
\* expected position with confidence 0.1 otherwise.
C10_NoSignalMomentumOrExpected ==
    NoSignalCall =>
        LET predicted_pos   == PredictPositionWithMomentum(last_track.before,
                                                           last_track.expected)
            adaptive_radius == CalculateAdaptiveSearchRadius(last_track.before,
                                                             last_track.radius)
        IN  IF /\ predicted_pos # last_track.expected
               /\ Dist2(predicted_pos, last_track.expected)
                    <= adaptive_radius * adaptive_radius * Scale * Scale
            THEN last_track.pos = predicted_pos /\ LastConfidence = Conf03
            ELSE last_track.pos = last_track.expected /\ LastConfidence = Conf01

\* a call without signal on a history of two positions that moved
C10_MomentumWithoutSignalReached ==
    /\ NoSignalCall
    /\ last_track.path = "momentum"
    /\ Len(last_track.before.position_history) >= 2
    /\ last_track.pos # last_track.expected

\* the positions, the confidences and the position differences of the pushes
\* since the last reset, in the order of the calls
PushedPositions == [i \in 1 .. Len(pushed) |-> pushed[i][1]]
PushedConfidences == [i \in 1 .. Len(pushed) |-> pushed[i][2]]
PushedVelocities ==
    [i \in 1 .. (Len(pushed) - 1) |->
        <<pushed[i + 1][1][1] - pushed[i][1][1],
          pushed[i + 1][1][2] - pushed[i][1][2]>>]

\* C11: after any number of _update_tracking_history calls since a reset the
\* three lists have at most tracking_history_size entries, position_history
\* and tracking_confidence have the same length, and each list holds the
\* latest entries inserted, in insertion order.
C11_HistoryBoundedFifo ==
    /\ Len(position_history) <= tracking_history_size
    /\ Len(tracking_confidence) <= tracking_history_size
    /\ Len(velocity_history) <= tracking_history_size
    /\ Len(position_history) = Len(tracking_confidence)
    /\ position_history = LastN(PushedPositions, tracking_history_size)
    /\ tracking_confidence = LastN(PushedConfidences, tracking_history_size)
    /\ velocity_history = LastN(PushedVelocities, tracking_history_size)

\* two entries have been evicted from each list
C11_EvictionsReached ==
    /\ Len(pushed) = tracking_history_size + 2
    /\ Len(velocity_history) = tracking_history_size
    /\ pushed[1][1] # pushed[Len(pushed)][1]

PredictCalled ==
    /\ last_call # NoCall
    /\ last_call.op = "_predict_position_with_momentum"

\* q is the fixed-point value nearest to total / weight
NearestTo(q, total, weight) ==
    /\ 2 * (q * weight - total) <= weight
    /\ 2 * (total - q * weight) <= weight

\* C12: _predict_position_with_momentum returns the expected position when
\* fewer than 2 positions are recorded, and otherwise the expected position
\* plus the mean of the n velocities weighted 1, 2, .., n from the oldest to
\* the newest (the weights (i+1)/n divided by their sum).
C12_MomentumIsWeightedMean ==
    PredictCalled =>
        LET n == Len(velocity_history)
            expected_pos == last_call.expected_pos
            weight == (n * (n + 1)) \div 2
        IN  IF Len(position_history) < 2
            THEN last_call.result = expected_pos
            ELSE \A axis \in {1, 2} :
                    NearestTo(last_call.result[axis] - expected_pos[axis],
                              SumSeq([i \in 1 .. n |-> i * velocity_history[i][axis]]),
                              weight)

\* a prediction from a full history whose velocities differ
C12_WeightedPredictionReached ==
    /\ PredictCalled
    /\ Len(velocity_history) = tracking_history_size
    /\ velocity_history[1] # velocity_history[tracking_history_size]
    /\ last_call.result # last_call.expected_pos

RadiusCalled ==
    /\ last_call # NoCall
    /\ last_call.op = "_calculate_adaptive_search_radius"

\* n^2 * Scale^2 * (x_std^2 + y_std^2) of the positions l, x_std and y_std in
\* pixels
SpreadOf(l) ==
    LET n == Len(l)
        sx  == SumSeq([i \in 1 .. n |-> l[i][1]])
        sy  == SumSeq([i \in 1 .. n |-> l[i][2]])
        sxx == SumSeq([i \in 1 .. n |-> l[i][1] * l[i][1]])
        syy == SumSeq([i \in 1 .. n |-> l[i][2] * l[i][2]])
    IN  (n * sxx - sx * sx) + (n * syy - sy * sy)

\* C13: _calculate_adaptive_search_radius returns base with fewer than 3
\* positions recorded, and otherwise exactly clamp(base + 2*variance, base,
\* 2*base), variance = sqrt(std_x^2 + std_y^2) of the last 5 positions,
\* nothing rounded or truncated.
C13_RadiusIsExactClamp ==
    RadiusCalled =>
        LET base   == last_call.base_radius
            recent == LastN(position_history, 5)
            unit   == Len(recent) * Scale
            added  == last_call.result - base
        IN  IF Len(position_history) < 3 THEN last_call.result = base
            ELSE IF 4 * SpreadOf(recent) >= base * base * unit * unit
                 THEN last_call.result = 2 * base
                 ELSE added >= 0 /\ added * added * unit * unit = 4 * SpreadOf(recent)

\* C13 as the code has it: base + 2*variance is truncated to a whole number
\* of pixels (int(...)) before it is clamped to [base, 2*base].
C13_RadiusIsTruncatedClamp ==
    RadiusCalled =>
        LET base   == last_call.base_radius
            recent == LastN(position_history, 5)
            unit   == Len(recent) * Scale
            added  == last_call.result - base
        IN  IF Len(position_history) < 3 THEN last_call.result = base
            ELSE IF 4 * SpreadOf(recent) >= base * base * unit * unit
                 THEN last_call.result = 2 * base
                 ELSE /\ added >= 0
                      /\ added * added * unit * unit <= 4 * SpreadOf(recent)
                      /\ 4 * SpreadOf(recent) < (added + 1) * (added + 1) * unit * unit

\* a radius between the clamps for which 2*variance is no whole number
C13_TruncatedRadiusReached ==
    /\ RadiusCalled
    /\ Len(position_history) >= 3
    /\ last_call.result > last_call.base_radius
    /\ last_call.result < 2 * last_call.base_radius
    /\ (last_call.result - last_call.base_radius)
         * (last_call.result - last_call.base_radius)
         * Len(position_history) * Len(position_history) * Scale * Scale
           < 4 * SpreadOf(position_history)

\* a measurement was the latest stand-alone call
PhotometryCalled ==
    /\ last_call # NoCall
    /\ last_call.op \in {"perform_aperture_photometry", "perform_rgb_photometry"}

\* C14: for every input, a grayscale plane or RGB planes, a measurement with
\* inner_annulus >= outer_annulus succeeds (so that a result record is
\* appended for the frame), and in every channel it produces the corrected
\* flux equals the raw flux and the sky median and the sky std are 0.
C14_NoAnnulusMeansNoSky ==
    (/\ PhotometryCalled
     /\ last_call.aperture_params.inner_annulus >= last_call.aperture_params.outer_annulus)
        => /\ ~last_call.result.raised
           /\ \A c \in DOMAIN last_call.result.channels :
                 /\ last_call.result.channels[c].flux_corrected
                        = last_call.result.channels[c].star_flux_raw
                 /\ last_call.result.channels[c].sky_per_pixel = 0
                 /\ last_call.result.channels[c].sky_std = 0

\* poisson_noise is 0 for a raw flux <= 0, and otherwise its square is the
\* raw flux, to the resolution of the fixed-point square root
PoissonOf(m) ==
    IF m.star_flux_raw <= 0
    THEN m.poisson_noise = 0
    ELSE /\ m.poisson_noise * m.poisson_noise <= m.star_flux_raw * Scale
         /\ m.star_flux_raw * Scale < (m.poisson_noise + 1) * (m.poisson_noise + 1)

\* C15: with sky subtraction active (inner_annulus < outer_annulus) every
\* channel measured has sky_background_total = sky median * aperture_area,
\* the area of the signal aperture of radius inner_radius, a corrected flux
\* of raw flux - sky_background_total, and a poisson_noise that is 0 for a
\* raw flux <= 0 and the square root of the raw flux otherwise.
C15_SkyTotalIsMedianTimesArea ==
    (/\ PhotometryCalled
     /\ last_call.aperture_params.inner_annulus < last_call.aperture_params.outer_annulus)
        => /\ ~last_call.result.raised
           /\ \A c \in DOMAIN last_call.result.channels :
                 /\ last_call.result.channels[c].sky_background_total
                        = last_call.result.channels[c].sky_per_pixel
                             * last_call.result.aperture_area
                 /\ last_call.result.channels[c].flux_corrected
                        = last_call.result.channels[c].star_flux_raw
                             - last_call.result.channels[c].sky_background_total
                 /\ PoissonOf(last_call.result.channels[c])

\* C16: from start_preselection_mode until the preselection phase ends,
\* through clicks, auto-tracking steps, pauses, navigation, position updates,
\* clears and resumes, no photometry is performed: photometry_results stays
\* empty.
C16_PreselectionMeasuresNothing ==
    preselection_mode => photometry_results = <<>>

\* a step of process_batch_photometry
WorkerStep ==
    /\ worker_pc # "idle"
    /\ worker_pc' # worker_pc
    /\ events' = events

\* the step appends a result
ResultAppended ==
    Len(photometry_results') = Len(photometry_results) + 1

\* C17: while the batch runs, the worker never invokes the tracker and leaves
\* position_history, velocity_history and tracking_confidence unchanged; it
\* visits the frames in strictly increasing index order; and every result it
\* appends for frame i has the position pre-populated for frame i as its
\* tracked_position.
C17_BatchUsesStoredPositions ==
    [][WorkerStep =>
         /\ last_track' = last_track
         /\ position_history' = position_history
         /\ velocity_history' = velocity_history
         /\ tracking_confidence' = tracking_confidence
         /\ (worker_pc # "start" /\ worker_pc' \notin {"finally2", "idle"})
               => worker_i' >= worker_i
         /\ ResultAppended =>
               /\ worker_i' = worker_i + 1
               /\ photometry_results'[Len(photometry_results')].image_index = worker_i
               /\ photometry_results'[Len(photometry_results')].tracked_position
                      = worker_star_pos]_vars

\* the step in which the for statement of process_batch_photometry finds no
\* further frame: the run is complete
RunCompletes ==
    /\ worker_pc = "next"
    /\ worker_i >= worker_n \/ worker_i >= Len(worker_positions)
    /\ worker_pc' = "finally"

\* C18: a batch run that completes over the position list of an earlier
\* completed run, with the same frames and aperture parameters, ends with the
\* same result sequence (frame indices, positions, movement) as that run,
\* whatever happened in the session since.
C18_BatchIsIdempotent ==
    [][(/\ RunCompletes
        /\ completed_run # NoRun
        /\ completed_run.positions = worker_positions)
          => photometry_results = completed_run.results]_vars

\* the worker handles a frame for which process_single_image returned None,
\* the window still open
FrameFailed ==
    /\ WorkerStep
    /\ worker_pc = "append"
    /\ worker_result = NoResult
    /\ ~closed

\* the for statement has a further frame and no stop was asked for
FurtherFrame ==
    /\ WorkerStep
    /\ worker_pc = "next"
    /\ worker_i < worker_n /\ worker_i < Len(worker_positions)
    /\ ~stop_processing

\* C19: in a batch run the failure of a frame i > 0 does not end the run: no
\* result is appended for frame i, the results appended before are kept, the
\* loop goes on with frame i + 1, every further frame is taken in order, and
\* the failure of frame i is on record in the status log of the session.
C19_FailedFrameIsSkipped ==
    [][/\ (FrameFailed /\ worker_i > 0)
            => /\ photometry_results' = photometry_results
               /\ worker_pc' = "next"
               /\ worker_i' = worker_i + 1
               /\ worker_i \in status_errors'
       /\ FurtherFrame
            => /\ worker_pc' = "wait"
               /\ worker_i' = worker_i
               /\ worker_star_pos' = worker_positions[worker_i + 1]]_vars

\* frame 1 failed, frames 0 and 2 have their results
C19_SkippedFrameReached ==
    /\ worker_pc = "next" /\ worker_i = 3
    /\ 1 \in status_errors
    /\ ~closed
    /\ Len(photometry_results) = 2
    /\ photometry_results[1].image_index = 0
    /\ photometry_results[2].image_index = 2

\* C20: when the first frame (index 0) cannot be processed or has no valid
\* position the run ends there: processing stops, and no result of a later
\* frame is appended.
C20_FirstFrameFailureIsFatal ==
    [][/\ (FrameFailed /\ worker_i = 0) => worker_pc' = "finally"
       /\ (WorkerStep /\ ResultAppended /\ worker_i > 0 /\ ~closed)
            => \E k \in 1 .. Len(photometry_results) :
                  photometry_results[k].image_index = 0]_vars

\* the tracking history and the lists of positions and results are the same
\* after the step
ListsUnchanged ==
    /\ preselected_positions' = preselected_positions
    /\ frame_positions' = frame_positions
    /\ photometry_results' = photometry_results
    /\ position_history' = position_history
    /\ velocity_history' = velocity_history
    /\ tracking_confidence' = tracking_confidence

\* go_back_frame or skip_frame runs in a paused session (paused by
\* pause_processing or by pause_preselection)
PausedNavigation ==
    /\ paused \/ (preselection_mode /\ preselection_paused)
    /\ PressGoBack \/ PressSkipFrame

\* C21: navigation in a paused session leaves the position lists, the
\* results and the tracking history unchanged, and leaves current_frame_index,
\* the frame at which processing resumes, unchanged.
C21_NavigationKeepsResumeFrame ==
    [][PausedNavigation =>
          /\ ListsUnchanged
          /\ current_frame_index' = current_frame_index]_vars

\* the part of C21 about the lists alone
NavigationKeepsLists ==
    [][PausedNavigation => ListsUnchanged]_vars

\* the mode flag that is set, or NoMode when none or more than one is
ModeOfFlags ==
    IF preselection_mode /\ ~batch_processing_mode /\ ~sequential_mode
    THEN "preselection"
    ELSE IF batch_processing_mode /\ ~preselection_mode /\ ~sequential_mode
    THEN "batch"
    ELSE IF sequential_mode /\ ~preselection_mode /\ ~batch_processing_mode
    THEN "sequential"
    ELSE NoMode

\* pause_processing runs in a session that is in exactly one mode
PauseStep == ~paused /\ paused' /\ ModeOfFlags # NoMode

\* the click that resumes a session paused by pause_processing
ResumeStep == paused /\ ~paused' /\ paused_tracking_mode # NoMode

\* resume_preselection: the session paused by pause_preselection goes on
PreselectionResumeStep ==
    /\ preselection_mode /\ preselection_paused
    /\ preselection_mode' /\ ~preselection_paused'

\* the frame the batch worker takes next
NextWorkerFrame ==
    IF worker_pc = "start" THEN 0
    ELSE IF worker_pc = "append" THEN worker_i + 1
    ELSE worker_i

\* after the resume the frame at current_frame_index is the next one
\* processed: the batch worker is at that frame and the frame still has its
\* position, and a pre-selection or sequential session that schedules its
\* advance past the frame has stored the frame's position first
ResumesAtCurrentFrame(mode) ==
    /\ mode = "batch" =>
           /\ worker_pc' \notin {"idle", "finally", "finally2"}
           /\ NextWorkerFrame' = current_frame_index'
           /\ Len(preselected_positions') > current_frame_index'
    /\ mode = "preselection" =>
           /\ Len(preselected_positions') >= current_frame_index'
           /\ TimersPendingNow' > TimersPendingNow
                 => Len(preselected_positions') > current_frame_index'
    /\ mode = "sequential" =>
           (TimersPendingNow' > TimersPendingNow
                 => Len(frame_positions') > current_frame_index')

\* C22: a session paused in a mode (pre-selection, sequential, batch) has
\* that mode in paused_tracking_mode until it is resumed, and after the
\* resume it is in the same mode and no other, and the next frame it
\* processes is the one at current_frame_index.
C22_ResumeReentersMode ==
    [][/\ PauseStep => paused_tracking_mode' = ModeOfFlags
       /\ (paused /\ paused') => paused_tracking_mode' = paused_tracking_mode
       /\ ResumeStep =>
             /\ ModeOfFlags' = paused_tracking_mode
             /\ ResumesAtCurrentFrame(paused_tracking_mode)
       /\ PreselectionResumeStep =>
             /\ ModeOfFlags' = "preselection"
             /\ Len(preselected_positions') >= current_frame_index']_vars

\* a callback of the GUI thread runs while the batch worker thread is alive
MainThreadStepDuringRun ==
    /\ worker_pc # "idle"
    /\ worker_pc' = worker_pc
    /\ events' = events + 1

\* C23: while the batch worker thread runs, no callback of the main thread
\* (pause, navigation, click during the pause, resume) writes or rebinds
\* photometry_results or preselected_positions.
C23_OnlyWorkerWritesDuringRun ==
    [][MainThreadStepDuringRun =>
          /\ photometry_results' = photometry_results
          /\ preselected_positions' = preselected_positions]_vars

\* C24: while paused is true and stop_processing is false the batch worker
\* starts no new frame (it does not leave its pause loop), so that it appends
\* at most the result of the frame it had started; once paused is cleared it
\* goes on with the next frame: the frame it starts is processed, the run
\* does not end there.
C24_PauseAtFrameBoundary ==
    [][/\ (WorkerStep /\ paused /\ ~stop_processing) => worker_pc # "wait"
       /\ (WorkerStep /\ paused /\ ~stop_processing /\ ResultAppended)
             => /\ worker_pc' = "next"
                /\ worker_i' = worker_i + 1
       /\ (WorkerStep /\ worker_pc = "wait" /\ ~stop_processing)
             => worker_pc' = "process"
       /\ (WorkerStep /\ worker_pc = "process" /\ ~closed)
             => worker_pc' = "append"]_vars

\* the part of C24 about the worker while paused is true
PausedWorkerStartsNoFrame ==
    [][/\ (WorkerStep /\ paused /\ ~stop_processing) => worker_pc # "wait"
       /\ (WorkerStep /\ paused /\ ~stop_processing /\ ResultAppended)
             => /\ worker_pc' = "next"
                /\ worker_i' = worker_i + 1]_vars

\* the newest entry of the tracking history comes from the latest
\* track_star_position call, made on frame last_track.frame
NewestEntryTracked ==
    /\ position_history # <<>>
    /\ last_track # NoTrack
    /\ last_track.pushes = 1

\* a list of positions is cut: entries of its last frames are removed
Truncated(before, after) == Len(after) < Len(before)

\* track_star_position pushes an entry onto a history that holds entries
TrackedOntoHistory ==
    /\ NewestEntryTracked
    /\ last_track' # last_track
    /\ last_track'.pushes = 1
    /\ position_history' # <<>>
    /\ Len(pushed') = Len(pushed) + 1

\* C25: when a position list is cut at frame k the tracking history holds no
\* entry that comes from a frame after k (its newest entry comes from a frame
\* the list still has), and no track_star_position call pushes the position
\* of a frame that lies before the frame of the history's newest entry.
C25_HistoryFollowsPositions ==
    [][/\ (/\ Truncated(preselected_positions, preselected_positions')
           /\ NewestEntryTracked')
             => last_track'.frame < Len(preselected_positions')
       /\ (/\ Truncated(frame_positions, frame_positions')
           /\ sequential_mode'
           /\ NewestEntryTracked')
             => last_track'.frame < Len(frame_positions')
       /\ TrackedOntoHistory => last_track'.frame >= last_track.frame]_vars

\* a root.after callback ends the pre-selection: load_frame_for_preselection
\* was called with an index past the last frame and ran
\* finish_preselection_phase
PreselectionRunsOut ==
    /\ preselection_mode /\ ~preselection_mode'
    /\ events' = events

\* C26: when the pre-selection ends by running past the last frame,
\* preselected_positions has exactly one entry per frame and none of them is
\* None, whatever clicks, auto-tracking steps, pauses, navigation, clears and
\* resumes came before.
C26_FinishedPreselectionIsComplete ==
    [][PreselectionRunsOut =>
          /\ Len(preselected_positions') = num_files
          /\ \A k \in 1 .. Len(preselected_positions') :
                 preselected_positions'[k] # None]_vars

\* a session starts: one of the mode flags is raised
SessionStarts ==
    \/ ~preselection_mode /\ preselection_mode'
    \/ ~sequential_mode /\ sequential_mode'
    \/ ~batch_processing_mode /\ batch_processing_mode'

\* C27: when a session starts (pre-selection, batch, automatic batch,
\* sequential tracking, manual tracking) position_history, velocity_history
\* and tracking_confidence are empty.
C27_SessionStartsWithEmptyHistory ==
    [][SessionStarts =>
          /\ position_history' = <<>>
          /\ velocity_history' = <<>>
          /\ tracking_confidence' = <<>>]_vars

\* the part of C27 about the pre-selection and batch sessions
OtherSessionsStartWithEmptyHistory ==
    [][(SessionStarts /\ ~sequential_mode') =>
          /\ position_history' = <<>>
          /\ velocity_history' = <<>>
          /\ tracking_confidence' = <<>>]_vars

\* the record appended by the step
Appended == photometry_results'[Len(photometry_results')]

\* the record r of frame i has the movement from the position that l (a list
\* of positions, frame 0 first) holds for frame i - 1; 0 for frame 0
MovementFromPrevious(r, l) ==
    IF r.image_index = 0 THEN r.movement_pixels = 0
    ELSE /\ r.image_index <= Len(l)
         /\ l[r.image_index] # None
         /\ r.movement_pixels = Movement(r.tracked_position, l[r.image_index])

\* C28: every result appended for a frame i > 0, by the batch worker and in
\* sequential mode alike, has as movement_pixels the distance between its
\* position and the position of frame i - 1; for frame 0 it is 0.
C28_MovementFromPreviousFrame ==
    [][ResultAppended =>
          /\ WorkerStep => MovementFromPrevious(Appended, worker_positions)
          /\ (~WorkerStep /\ OnlySequential')
                => MovementFromPrevious(Appended, frame_positions')]_vars

\* What a call of track_star_position has to choose from: the two centroid
\* candidates, whether each passes the acceptance test (a, b) and whether
\* the momentum prediction is taken (c), from the inputs of the call
AttemptOf(plane, expected_pos, predicted_pos, adaptive_radius, com, peak) ==
    [empty |-> FALSE, com |-> com, peak |-> peak,
     a |-> com.ok /\ Accepted(plane, com.pos, expected_pos, adaptive_radius),
     b |-> peak.ok /\ Accepted(plane, peak.pos, expected_pos, adaptive_radius),
     c |-> MomentumAccepted(predicted_pos, expected_pos, adaptive_radius),
     adaptive_radius |-> adaptive_radius]

AttemptWithThreshold(plane, expected_pos, predicted_pos, adaptive_radius, c, threshold) ==
    AttemptOf(plane, expected_pos, predicted_pos, adaptive_radius,
              CenterOfMass(plane, c, threshold, expected_pos),
              PeakCentroid(plane, c, threshold, expected_pos))

AttemptInCutout(plane, expected_pos, predicted_pos, adaptive_radius, c) ==
    IF CutoutSize(c) = 0
    THEN [empty |-> TRUE,
          com |-> [ok |-> FALSE, pos |-> expected_pos],
          peak |-> [ok |-> FALSE, pos |-> expected_pos],
          a |-> FALSE, b |-> FALSE,
          c |-> MomentumAccepted(predicted_pos, expected_pos, adaptive_radius),
          adaptive_radius |-> adaptive_radius]
    ELSE AttemptWithThreshold(plane, expected_pos, predicted_pos, adaptive_radius, c,
                              CalculateAdaptiveThreshold(plane, c).threshold)

AttemptAround(plane, expected_pos, predicted_pos, adaptive_radius) ==
    AttemptInCutout(plane, expected_pos, predicted_pos, adaptive_radius,
        Cutout(plane,
               Max(0, PyInt(predicted_pos[1]) - adaptive_radius),
               Min(plane.w, PyInt(predicted_pos[1]) + adaptive_radius),
               Max(0, PyInt(predicted_pos[2]) - adaptive_radius),
               Min(plane.h, PyInt(predicted_pos[2]) + adaptive_radius)))

\* the attempt of the latest call
LastAttempt ==
    AttemptAround(TrackPlane(last_track.frame), last_track.expected,
                  PredictPositionWithMomentum(last_track.before, last_track.expected),
                  CalculateAdaptiveSearchRadius(last_track.before, last_track.radius))

\* the confidence the order A, B, C, fallback gives
ConfidenceByOrder(t) ==
    IF t.a THEN Conf08 ELSE IF t.b THEN Conf06 ELSE IF t.c THEN Conf03 ELSE Conf01

RecordedByOrder(t) ==
    /\ last_track.pushes = 1
    /\ LastConfidence = ConfidenceByOrder(t)
    /\ Len(last_track.before.position_history) < 2 => LastConfidence # Conf03

\* C29: the confidence a call of track_star_position records is 0.8 iff the
\* center-of-mass candidate is accepted, 0.6 iff it is not and the peak
\* candidate is accepted, 0.3 iff neither is and the momentum prediction
\* differs from the expected position and lies within adaptive_radius of it,
\* and 0.1 otherwise; with fewer than 2 positions in the history 0.3 is never
\* recorded.
C29_ConfidenceByMethodOrder ==
    last_track # NoTrack => RecordedByOrder(LastAttempt)

\* the part of C29 about the calls that find a cutout to search
SearchedCallsRecordByOrder ==
    (last_track # NoTrack /\ last_track.path # "empty") => RecordedByOrder(LastAttempt)

\* pos lies within 1.5 * adaptive_radius of the expected position of the
\* latest call
WithinOfExpected(pos, adaptive_radius) ==
    4 * Dist2(pos, last_track.expected)
        <= 9 * adaptive_radius * adaptive_radius * Scale * Scale

AtLeast5FromEdges(plane, pos) ==
    /\ 5 * Scale <= pos[1] /\ pos[1] <= (plane.w - 5) * Scale
    /\ 5 * Scale <= pos[2] /\ pos[2] <= (plane.h - 5) * Scale

MoreThan5FromEdges(plane, pos) ==
    /\ 5 * Scale < pos[1] /\ pos[1] < (plane.w - 5) * Scale
    /\ 5 * Scale < pos[2] /\ pos[2] < (plane.h - 5) * Scale

ReturnedByCentroid == last_track.path \in {"com", "peak"}

\* the center-of-mass candidate of the attempt t is the position returned
\* with confidence 0.8
ComReturned(t) ==
    /\ last_track.path = "com"
    /\ last_track.pos = t.com.pos
    /\ LastConfidence = Conf08

AcceptsFrom5(plane, t) ==
    /\ ReturnedByCentroid =>
          /\ WithinOfExpected(last_track.pos, t.adaptive_radius)
          /\ AtLeast5FromEdges(plane, last_track.pos)
    /\ (/\ t.com.ok
        /\ WithinOfExpected(t.com.pos, t.adaptive_radius)
        /\ AtLeast5FromEdges(plane, t.com.pos)) => ComReturned(t)

AcceptsBeyond5(plane, t) ==
    /\ ReturnedByCentroid =>
          /\ WithinOfExpected(last_track.pos, t.adaptive_radius)
          /\ MoreThan5FromEdges(plane, last_track.pos)
    /\ (/\ t.com.ok
        /\ WithinOfExpected(t.com.pos, t.adaptive_radius)
        /\ MoreThan5FromEdges(plane, t.com.pos)) => ComReturned(t)
    /\ (t.com.ok /\ ~MoreThan5FromEdges(plane, t.com.pos)) => ~ComReturned(t)

\* C30: every position track_star_position returns with confidence 0.8 or
\* 0.6 lies within 1.5 * adaptive_radius of the expected position and at
\* least 5 pixels from every edge of the plane, and a candidate exactly 5
\* pixels from an edge is accepted.
C30_AcceptedFrom5Pixels ==
    last_track # NoTrack => AcceptsFrom5(TrackPlane(last_track.frame), LastAttempt)

\* C30 as the code has it: every position returned with confidence 0.8 or
\* 0.6 lies within 1.5 * adaptive_radius of the expected position and more
\* than 5 pixels from every edge of the plane; a candidate exactly 5 pixels
\* from an edge is rejected.
C30_AcceptedBeyond5Pixels ==
    last_track # NoTrack => AcceptsBeyond5(TrackPlane(last_track.frame), LastAttempt)

\* the center of mass lies exactly 5 pixels from the left edge and within
\* 1.5 * adaptive_radius of the expected position; it is passed over and the
\* peak candidate, 7 pixels from the edge, is returned with confidence 0.6
C30_EdgeCandidateRejected ==
    /\ last_track # NoTrack
    /\ last_track.frame = NumFrames
    /\ last_track.path = "peak"
    /\ LastConfidence = Conf06
    /\ last_track.pos = <<7 * Scale, 20 * Scale>>
    /\ LastAttempt.com.ok
    /\ LastAttempt.com.pos = <<5 * Scale, 20 * Scale>>
    /\ WithinOfExpected(LastAttempt.com.pos, LastAttempt.adaptive_radius)

\* the difference p_j - p_(j-1) of the positions pushed since the reset
PushedDifference(j) ==
    <<pushed[j][1][1] - pushed[j - 1][1][1], pushed[j][1][2] - pushed[j - 1][1][2]>>

\* C31: after n pushes p_1..p_n since a reset, velocity_history is the
\* sequence of the differences p_j - p_(j-1) for the last min(n-1, 5) values
\* of j, in order; the first push appends no velocity.
C31_VelocitiesAreDifferences ==
    LET n == Len(pushed)
        m == IF n = 0 THEN 0 ELSE Min(n - 1, tracking_history_size)
    IN  /\ Len(velocity_history) = m
        /\ \A k \in 1 .. m : velocity_history[k] = PushedDifference(n - m + k)
        /\ n <= 1 => velocity_history = <<>>

\* seven pushes: the five velocities kept are those of pushes 3..7, the one
\* of push 2 is gone, and they are not all alike
C31_OldestVelocityEvicted ==
    /\ Len(pushed) = tracking_history_size + 2
    /\ Len(velocity_history) = tracking_history_size
    /\ velocity_history[1] = PushedDifference(3)
    /\ velocity_history[1] # PushedDifference(2)
    /\ velocity_history[tracking_history_size] # velocity_history[1]

\* a step in which load_frame_for_preselection runs the automatic tracking
AutoTrackStep ==
    /\ last_track' # last_track
    /\ last_track'.by = "auto"

\* a step that gives frame 0 its position during pre-selection
FirstPositionStored ==
    /\ preselection_mode
    /\ Len(preselected_positions') >= 1
    /\ preselected_positions'[1] # None
    /\ \/ preselected_positions = <<>>
       \/ preselected_positions[1] # preselected_positions'[1]

\* l holds a position that is not None, and seed is the latest such one
MostRecentStored(l, seed) ==
    \E k \in 1 .. Len(l) :
        /\ l[k] # None
        /\ \A j \in (k + 1) .. Len(l) : l[j] = None
        /\ seed = l[k]

AutoTrackNotInPreselectionPause ==
    [][AutoTrackStep => ~preselection_paused]_vars

\* the automatic tracking found frame 2 from the position of frame 0, the
\* entry of frame 1 being None
C32_SeededPastNone ==
    /\ last_track # NoTrack
    /\ last_track.by = "auto"
    /\ last_track.frame = 2
    /\ Len(preselected_positions) = 3
    /\ preselected_positions[2] = None
    /\ last_track.expected = preselected_positions[1]

WorkerEnded == worker_pc = "idle" /\ ~processing /\ ~batch_processing_mode

BatchTerminates == (worker_pc # "idle") ~> WorkerEnded

\* between its start and its end the worker takes the frames in order, one
\* attempt each, and only the first min(len(fits_files),
\* len(preselected_positions)) of them
AttemptsEachFrameOnce ==
    [][/\ (worker_pc = "start" /\ worker_pc' # "start") =>
              /\ worker_i' = 0
              /\ worker_n' = Min(num_files, Len(preselected_positions))
       /\ (worker_pc \notin {"idle", "start", "finally2"} /\ worker_pc' # "start") =>
              /\ worker_n' = worker_n
              /\ worker_i' = IF worker_pc = "append" /\ worker_pc' # "append"
                             THEN worker_i + 1 ELSE worker_i
       /\ worker_pc' = "process" => worker_i' < worker_n']_vars

PausedForGood == paused /\ ~stop_processing

StopCallArmsOrPauses(s, r) ==
    /\ r.stop_processing = s.stop_processing
    /\ NothingRunning(s) => r = s
    /\ (~NothingRunning(s) /\ ~s.paused) =>
           /\ r.paused
           /\ r.waiting_for_resume_click = s.waiting_for_resume_click
    /\ (~NothingRunning(s) /\ s.paused) => r = [s EXCEPT !.waiting_for_resume_click = TRUE]

StopCallsFrom(s) == StopCallArmsOrPauses(s, StopPhotometryProcessing(s))

C35_ResumeCutsAtCurrentFrame ==
    [][PreselectionResumeStep =>
          /\ current_frame_index' = current_frame_index
          /\ Len(preselected_positions') = Min(Len(preselected_positions), current_frame_index)
          /\ \A k \in 1 .. Len(preselected_positions') :
                 preselected_positions'[k] = preselected_positions[k]]_vars

\* resumed at frame 1 after a click stored a position for frame 1: that
\* position is gone and the entry of frame 0 is still there
C35_CurrentFrameDiscarded ==
    /\ preselection_mode /\ ~preselection_paused
    /\ waiting_for_resume_reference
    /\ current_frame_index = 1
    /\ last_track # NoTrack
    /\ last_track.by = "click"
    /\ last_track.frame = 1
    /\ Len(preselected_positions) = 1
    /\ preselected_positions[1] # None

\* the mode flags that are set
ModesSet ==
    {m \in {"preselection", "sequential", "batch"} :
        \/ m = "preselection" /\ preselection_mode
        \/ m = "sequential" /\ sequential_mode
        \/ m = "batch" /\ batch_processing_mode}

\* C36: in every reachable state at most one of preselection_mode,
\* sequential_mode and batch_processing_mode is true.
C36_AtMostOneMode == Cardinality(ModesSet) <= 1

UnpausedPreselection == preselection_mode /\ ~preselection_paused

\* C37: during unpaused pre-selection no frame is passed over without a
\* position: at most one advance_to_next_preselection_frame callback is
\* pending at any time, current_frame_index never exceeds
\* len(preselected_positions), and current_frame_index advances by exactly
\* one, from a frame that has its entry.
C37_NoFramePassedOver ==
    /\ [](UnpausedPreselection =>
            /\ timers["advance_to_next_preselection_frame"] <= 1
            /\ current_frame_index <= Len(preselected_positions))
    /\ [][(/\ UnpausedPreselection /\ UnpausedPreselection'
           /\ current_frame_index' # current_frame_index
           /\ events' = events) =>
              /\ current_frame_index' = current_frame_index + 1
              /\ current_frame_index < Len(preselected_positions)]_vars

\* the frame index r leaves lies within [0, len(fits_files) - 1]
FrameInRange(s, r) ==
    /\ 0 <= r.current_frame_index
    /\ r.current_frame_index <= s.num_files - 1

\* what go_back_frame or skip_frame, run on the fields s, leaves in r
NavigatedWithin(s, r) ==
    /\ FrameInRange(s, s) => FrameInRange(s, r)
    /\ r.current_frame_index >= Min(s.current_frame_index, 0)
    /\ r.current_frame_index <= Max(s.current_frame_index, s.num_files - 1)
    /\ (s.preselection_mode /\ ~s.preselection_paused) =>
           r.current_frame_index = s.current_frame_index

\* C38: go_back_frame and skip_frame keep current_frame_index within
\* [0, len(fits_files) - 1] in every reachable state (neither takes it below
\* 0 or beyond the last frame), and leave it unchanged when pre-selection is
\* active and not paused.
C38_NavigationStaysInRange ==
    /\ NavigatedWithin(Self, GoBackFrame(Self))
    /\ NavigatedWithin(Self, SkipFrame(Self))

\* "Next Frame" took a paused pre-selection to the last frame, beyond the
\* positions stored so far; the next skip_frame call changes nothing
C38_SkippedToLastFrame ==
    /\ preselection_mode /\ preselection_paused
    /\ current_frame_index = num_files - 1
    /\ current_image = current_frame_index
    /\ Len(preselected_positions) < current_frame_index
    /\ SkipFrame(Self) = Self
    /\ GoBackFrame(Self).current_frame_index = current_frame_index - 1

\* the positions file holds what auto_save_star_positions writes for the
\* list in memory
SavedFromList ==
    /\ preselected_positions # <<>>
    /\ positions_csv # <<>>
    /\ positions_csv = CsvRows(preselected_positions, 1, num_files)

\* the position stored for frame index i is paired with frame i in l
PairedAgain(i, l) ==
    /\ i + 1 <= Len(l)
    /\ l[i + 1] = <<Format2f(preselected_positions[i + 1][1]),
                    Format2f(preselected_positions[i + 1][2])>>

\* C39: saving a position list and loading it back for the batch replay
\* preserves the frame alignment: every position stored for frame index i
\* before saving is paired with frame i again after loading, also when the
\* saved list held None entries for some frames.
C39_SaveLoadKeepsAlignment ==
    [][(PressBatchProcess /\ SavedFromList) =>
          \A i \in 0 .. (Len(preselected_positions) - 1) :
              (preselected_positions[i + 1] # None /\ i < num_files)
                  => PairedAgain(i, preselected_positions')]_vars

\* the same for the lists without a None entry
FullListKeepsAlignment ==
    [][(/\ PressBatchProcess /\ SavedFromList
        /\ \A k \in 1 .. Len(preselected_positions) : preselected_positions[k] # None) =>
          \A i \in 0 .. (Len(preselected_positions) - 1) :
              i < num_files => PairedAgain(i, preselected_positions')]_vars

====
